---- MODULE Spec2Model ----
(***************************************************************************)
(* Markdown-to-PDF flow controller (renderMarkdownToPdf), its block        *)
(* renderers and the inline span formatter (processInlineFormatting),      *)
(* modelled over an abstract Drawing Surface that records every text call. *)
(*                                                                         *)
(* A JavaScript string is a sequence of one-character strings.  Lengths    *)
(* and spacing multipliers are integers in thousandths (0.4 is 400, 72pt   *)
(* is 72000); font sizes are in points.                                    *)
(***************************************************************************)
EXTENDS Integers, Sequences, FiniteSets, TLC

\* ------------------------------------------------------------------ bounds
MaxLines == 4          \* longest document over CoreLines
MaxMixedLines == 2     \* longest document over all of SampleLines

\* -------------------------------------------------------------- characters
Bullet == "bullet"
Backtick == "bt"
NL == "\n"
Apos == "apos"
DQuote == "dq"
LAngleQuote == "laquo"
RAngleQuote == "raquo"
LDQuote == "ldquo"
RDQuote == "rdquo"
LSQuote == "lsquo"
RSQuote == "rsquo"

Whitespace == {" ", "\t", NL}
Digits == {"0", "1", "2", "3", "4", "5", "6", "7", "8", "9"}
LowerSeq ==
  <<"a", "b", "c", "d", "e", "f", "g", "h", "i", "j", "k", "l", "m",
    "n", "o", "p", "q", "r", "s", "t", "u", "v", "w", "x", "y", "z">>
UpperSeq ==
  <<"A", "B", "C", "D", "E", "F", "G", "H", "I", "J", "K", "L", "M",
    "N", "O", "P", "Q", "R", "S", "T", "U", "V", "W", "X", "Y", "Z">>
Letters == {LowerSeq[k] : k \in 1..26} \cup {UpperSeq[k] : k \in 1..26}
WordChars == Letters \cup Digits \cup {"_"}

Min(S) == CHOOSE m \in S : \A n \in S : m <= n
Max(S) == CHOOSE m \in S : \A n \in S : m >= n

\* ----------------------------------------------------------------- strings
Take(s, n) == SubSeq(s, 1, n)
Drop(s, n) == SubSeq(s, n + 1, Len(s))

StartsWith(s, p) == Len(s) >= Len(p) /\ SubSeq(s, 1, Len(p)) = p
EndsWith(s, p) ==
  Len(s) >= Len(p) /\ SubSeq(s, Len(s) - Len(p) + 1, Len(s)) = p

HasAt(s, k, p) ==
  k >= 1 /\ k + Len(p) - 1 <= Len(s) /\ SubSeq(s, k, k + Len(p) - 1) = p

\* String.prototype.indexOf, 1-based; 0 when p does not occur in s.
IndexOf(s, p) ==
  LET hits == {k \in 1..(Len(s) - Len(p) + 1) :
                 SubSeq(s, k, k + Len(p) - 1) = p}
  IN IF hits = {} THEN 0 ELSE Min(hits)

Includes(s, p) == IndexOf(s, p) # 0

ToLowerChar(c) ==
  IF \E k \in 1..26 : UpperSeq[k] = c
    THEN LowerSeq[CHOOSE k \in 1..26 : UpperSeq[k] = c]
    ELSE c
ToLowerCase(s) == [k \in 1..Len(s) |-> ToLowerChar(s[k])]

Trim(s) ==
  LET solid == {k \in 1..Len(s) : s[k] \notin Whitespace}
  IN IF solid = {} THEN << >> ELSE SubSeq(s, Min(solid), Max(solid))

\* String.prototype.replace with a string pattern: first occurrence only.
ReplaceFirst(s, p, r) ==
  LET k == IndexOf(s, p)
  IN IF k = 0 THEN s ELSE Take(s, k - 1) \o r \o Drop(s, k - 1 + Len(p))

RECURSIVE Split(_)
Split(s) ==
  LET k == IndexOf(s, <<NL>>)
  IN IF k = 0 THEN <<s>> ELSE <<Take(s, k - 1)>> \o Split(Drop(s, k))

RECURSIVE Join(_)
Join(ls) ==
  IF Len(ls) = 0 THEN << >>
  ELSE IF Len(ls) = 1 THEN ls[1]
  ELSE ls[1] \o <<NL>> \o Join(Tail(ls))

\* ------------------------------------------------- line-level regular expressions
LeadingDigits(s) ==
  LET stops == {k \in 1..Len(s) : s[k] \notin Digits}
  IN IF stops = {} THEN Len(s) ELSE Min(stops) - 1

\* /^\d+\.\s/
NumberedMatch(s) ==
  LET d == LeadingDigits(s)
  IN /\ d >= 1
     /\ Len(s) >= d + 2
     /\ s[d + 1] = "."
     /\ s[d + 2] \in Whitespace

\* match(/^\d+\./)[0]
NumberPrefix(s) == Take(s, LeadingDigits(s) + 1)

\* replace(/^\d+\.\s/, '')
StripNumber(s) == Drop(s, LeadingDigits(s) + 2)

\* /^[\-\*\_]{3,}$/
RuleMatch(s) == Len(s) >= 3 /\ \A k \in 1..Len(s) : s[k] \in {"-", "*", "_"}

\* /\[\w+\]/
BracketTokenMatch(s) ==
  \E a \in 1..Len(s) : \E b \in (a + 2)..Len(s) :
    /\ s[a] = "["
    /\ s[b] = "]"
    /\ \A k \in (a + 1)..(b - 1) : s[k] \in WordChars

\* ------------------------------------------------------------ URL pattern
Http == <<"h", "t", "t", "p", ":", "/", "/">>
Https == <<"h", "t", "t", "p", "s", ":", "/", "/">>

\* [^\s()<>]
UrlBodyChar(c) == c \notin (Whitespace \cup {"(", ")", "<", ">"})

\* the closing class of the pattern: one character that may end a URL
UrlFinalChar(c) ==
  c \notin (Whitespace \cup
            {",", Backtick, "!", "(", ")", "[", "]", "{", "}", ";", ":",
             Apos, DQuote, ".", "<", ">", "?", LAngleQuote, RAngleQuote,
             LDQuote, RDQuote, LSQuote, RSQuote})

\* length of the longest run of URL body characters of s starting at index q
BodyRun(s, q) ==
  LET stops == {k \in q..Len(s) : ~UrlBodyChar(s[k])}
  IN IF stops = {} THEN Len(s) - q + 1 ELSE Min(stops) - q

\* (?:\([^\s()<>]+\)|[^...]) tried at index q: index of the last character
\* matched, 0 when neither alternative matches.
UrlTailEnd(s, q) ==
  IF q > Len(s) THEN 0
  ELSE IF /\ s[q] = "("
          /\ BodyRun(s, q + 1) >= 1
          /\ q + 1 + BodyRun(s, q + 1) <= Len(s)
          /\ s[q + 1 + BodyRun(s, q + 1)] = ")"
    THEN q + 1 + BodyRun(s, q + 1)
  ELSE IF UrlFinalChar(s[q]) THEN q
  ELSE 0

\* The pattern anchored at index p of s: index of the last character of the
\* (greedy, backtracking) match, 0 when there is none.
UrlMatchEnd(s, p) ==
  LET b == IF HasAt(s, p, Https) THEN p + 8
           ELSE IF HasAt(s, p, Http) THEN p + 7
           ELSE 0
      r == IF b = 0 THEN 0 ELSE BodyRun(s, b)
      ks == {k \in 1..r : UrlTailEnd(s, b + k) # 0}
  IN IF b = 0 \/ ks = {} THEN 0 ELSE UrlTailEnd(s, b + Max(ks))

\* First match at or after the 0-based offset from: <<start index, end index>>
\* (1-based, inclusive), <<0, 0>> when there is none.
UrlSearch(s, from) ==
  LET starts == {p \in (from + 1)..Len(s) : UrlMatchEnd(s, p) # 0}
  IN IF starts = {} THEN <<0, 0>>
     ELSE <<Min(starts), UrlMatchEnd(s, Min(starts))>>

\* RegExp.prototype.test on the global pattern: the search starts at
\* lastIndex, a hit leaves lastIndex after the match, a miss resets it to 0.
UrlTest(s, lastIndex) ==
  IF lastIndex > Len(s) THEN [found |-> FALSE, lastIndex |-> 0]
  ELSE LET m == UrlSearch(s, lastIndex)
       IN IF m[1] = 0 THEN [found |-> FALSE, lastIndex |-> 0]
          ELSE [found |-> TRUE, lastIndex |-> m[2]]

\* [...text.matchAll(urlPattern)] as a sequence of <<start, end>> pairs
RECURSIVE UrlMatches(_, _)
UrlMatches(s, from) ==
  LET m == UrlSearch(s, from)
  IN IF from > Len(s) \/ m[1] = 0 THEN << >>
     ELSE <<m>> \o UrlMatches(s, m[2])

\* --------------------------------------------------------------------- theme
DEFAULT_THEME ==
  [fonts |-> [heading |-> "Helvetica-Bold", body |-> "Helvetica",
              italic |-> "Helvetica-Oblique", bold |-> "Helvetica-Bold",
              code |-> "Courier"],
   fontSize |-> [h1 |-> 24, h2 |-> 20, h3 |-> 16, body |-> 12, code |-> 10,
                 footer |-> 8],
   colors |-> [text |-> "#000000", heading |-> "#000000",
               blockquote |-> "#666666", codeBackground |-> "#f4f4f4",
               footer |-> "#666666", link |-> "#0000EE"],
   margins |-> [top |-> 72000, bottom |-> 72000, left |-> 72000,
                right |-> 72000],
   spacing |-> [paragraph |-> 800, heading1 |-> 1000, heading2 |-> 800,
                heading3 |-> 700, list |-> 800, blockquote |-> 800,
                codeBlock |-> 1000, lineGap |-> 4000]]

NoKeys == [k \in {} |-> 0]

\* theme.<category> of a partial user theme; an absent category spreads nothing
Category(theme, c) == IF c \in DOMAIN theme THEN theme[c] ELSE NoKeys

\* { ...defaults, ...user }
Spread(defaults, user) ==
  [k \in DOMAIN defaults \cup DOMAIN user |->
     IF k \in DOMAIN user THEN user[k] ELSE defaults[k]]

createMergedTheme(theme) ==
  [fonts |-> Spread(DEFAULT_THEME.fonts, Category(theme, "fonts")),
   fontSize |-> Spread(DEFAULT_THEME.fontSize, Category(theme, "fontSize")),
   colors |-> Spread(DEFAULT_THEME.colors, Category(theme, "colors")),
   margins |-> Spread(DEFAULT_THEME.margins, Category(theme, "margins")),
   spacing |-> Spread(DEFAULT_THEME.spacing, Category(theme, "spacing"))]

\* v * (tenths / 10) || fallback
Scaled(v, tenths, fallback) ==
  IF (v * tenths) \div 10 = 0 THEN fallback ELSE (v * tenths) \div 10

SPACING(mergedTheme) ==
  [heading1 |-> Scaled(mergedTheme.spacing.heading1, 3, 300),
   heading2 |-> Scaled(mergedTheme.spacing.heading2, 3, 250),
   heading3 |-> Scaled(mergedTheme.spacing.heading3, 3, 200),
   paragraph |-> Scaled(mergedTheme.spacing.paragraph, 7, 200),
   list |-> Scaled(mergedTheme.spacing.list, 5, 200),
   listWithUrl |-> 400,
   blockquote |-> Scaled(mergedTheme.spacing.blockquote, 5, 200),
   codeBlock |-> Scaled(mergedTheme.spacing.codeBlock, 5, 300),
   emptyLine |-> 200,
   tocItem |-> 150,
   horizontalRule |-> 500]

\* ------------------------------------------------------- Drawing Surface
\* The document (PDFKit) as the renderers use it.  A surface value S is
\*   doc         the document's fields
\*   texts       every doc.text call issued so far, in order
\*   docCalls    the number of document methods invoked so far
\*   currentPage the page counter of the render's pageAdded listener
\*   lastMoveDown the argument of the latest doc.moveDown call
PageWidth == 612000
PageHeight == 792000
NoPos == -1
NoWidth == -1

RECURSIVE NumToStr(_)
NumToStr(n) ==
  LET DigitSeq == <<"0", "1", "2", "3", "4", "5", "6", "7", "8", "9">>
  IN IF n < 10 THEN <<DigitSeq[n + 1]>>
     ELSE NumToStr(n \div 10) \o <<DigitSeq[(n % 10) + 1]>>

Invoke(S) == [S EXCEPT !.docCalls = @ + 1]
DocFont(S, f) == [Invoke(S) EXCEPT !.doc.font = f]
DocFontSize(S, n) == [Invoke(S) EXCEPT !.doc.fontSize = n]
DocFillColor(S, c) == [Invoke(S) EXCEPT !.doc.fillColor = c]
DocLineGap(S, g) == [Invoke(S) EXCEPT !.doc.lineGap = g]

currentLineHeight(d) == d.fontSize * 1000 + d.lineGap

\* a moveDown that moves the cursor up by the same amount
DocMoveDown_Up(S, n) ==
  [Invoke(S) EXCEPT !.doc.y = @ - (n * currentLineHeight(S.doc)) \div 1000,
                    !.lastMoveDown = n]

DocMoveDown(S, n) ==
  [Invoke(S) EXCEPT !.doc.y = @ + (n * currentLineHeight(S.doc)) \div 1000,
                    !.lastMoveDown = n]

\* moveTo(...).lineTo(...).stroke()
DocStroke(S) == Invoke(Invoke(Invoke(S)))

\* the width of a string at the current font size (half an em per character)
widthOfString(d, str) == Len(str) * d.fontSize * 500

TextLines(str) ==
  IF str = << >> THEN 0
  ELSE Cardinality({k \in 1..Len(str) : str[k] = NL}) + 1

\* opts: [continued, width, lineBreak, link]
Opts(continued, width, lineBreak) ==
  [continued |-> continued, width |-> width, lineBreak |-> lineBreak,
   link |-> FALSE]

\* The record of one doc.text call: the call is kept with the font state it
\* is drawn in, and explicit coordinates move the cursor.
RecordText(S, by, str, hasPos, x, y, opts) ==
  [Invoke(S) EXCEPT
     !.doc.x = IF hasPos THEN x ELSE @,
     !.doc.y = IF hasPos THEN y ELSE @,
     !.texts = Append(@, [by |-> by, str |-> str, hasPos |-> hasPos,
                          x |-> IF hasPos THEN x ELSE NoPos,
                          y |-> IF hasPos THEN y ELSE NoPos,
                          continued |-> opts.continued, width |-> opts.width,
                          lineBreak |-> opts.lineBreak, link |-> opts.link,
                          font |-> S.doc.font, fontSize |-> S.doc.fontSize,
                          fillColor |-> S.doc.fillColor,
                          page |-> S.doc.pages])]

\* a call that is not continued ends its lines and advances y
AdvanceY(S, str, opts) ==
  [S EXCEPT !.doc.y = IF opts.continued THEN @
                      ELSE @ + TextLines(str) * currentLineHeight(S.doc)]

\* one doc.text call without overflow handling
PlaceText(S, by, str, hasPos, x, y, opts) ==
  AdvanceY(RecordText(S, by, str, hasPos, x, y, opts), str, opts)

\* the footer is measured in the current size, then drawn in the footer size
\* and colour
DrawFooter(S, currentPage, theme) ==
  PlaceText(DocFillColor(DocFontSize(Invoke(S), theme.fontSize.footer),
                         theme.colors.footer),
            "addPageFooter",
            <<"P", "a", "g", "e", " ">> \o NumToStr(currentPage), TRUE,
            (PageWidth - widthOfString(S.doc, <<"P", "a", "g", "e", " ">>
                                                \o NumToStr(currentPage)))
              \div 2,
            PageHeight - S.doc.margins.bottom + 12000,
            Opts(FALSE, NoWidth, FALSE))

\* the text colour, the saved font and size, and the saved y are put back
RestoreAfterFooter(S, theme, originalY, originalFont, originalFontSize) ==
  [DocFont(DocFontSize(DocFillColor(S, theme.colors.text), originalFontSize),
           originalFont) EXCEPT !.doc.y = originalY]

\* addPageFooter(doc, currentPage, footerText = '', theme)
addPageFooter(S, currentPage, theme) ==
  RestoreAfterFooter(DrawFooter(S, currentPage, theme), theme,
                     S.doc.y, S.doc.font, S.doc.fontSize)

\* what the surrounding flow sees of the document
FlowState(d) ==
  [x |-> d.x, y |-> d.y, font |-> d.font, fontSize |-> d.fontSize,
   fillColor |-> d.fillColor]

\* the footer listener of renderMarkdownToPdf: currentPage++, addPageFooter;
\* the state it found and the state it left are kept, with the text call
\* that was being drawn
FooterListener(S, theme) ==
  [addPageFooter([S EXCEPT !.currentPage = @ + 1], S.currentPage + 1, theme)
     EXCEPT !.footerRuns =
       Append(@, [before |-> FlowState(S.doc),
                  after |-> FlowState(
                              addPageFooter(S, S.currentPage + 1, theme).doc),
                  during |-> IF S.texts = << >> THEN "addPage"
                             ELSE S.texts[Len(S.texts)].by])]

\* the pageAdded listeners of the document, run in registration order
RECURSIVE EmitPageAdded(_, _)
EmitPageAdded(S, k) ==
  IF k > Len(S.doc.listeners) THEN S
  ELSE IF S.doc.listeners[k].kind = "footer"
    THEN EmitPageAdded(FooterListener(S, S.doc.listeners[k].theme), k + 1)
  ELSE EmitPageAdded(S, k + 1)

\* a page added without telling the listeners
DocNewPage_Silent(S) ==
  [S EXCEPT !.doc.pages = @ + 1,
            !.doc.x = S.doc.margins.left,
            !.doc.y = S.doc.margins.top]

\* a new page is begun: the cursor returns to the top left of the content
\* area and the pageAdded event is emitted
DocNewPage(S) ==
  EmitPageAdded([S EXCEPT !.doc.pages = @ + 1,
                          !.doc.x = S.doc.margins.left,
                          !.doc.y = S.doc.margins.top], 1)

\* wrapped text that would pass the bottom margin starts a new page
Overflows(S, str, opts) ==
  /\ opts.lineBreak
  /\ TextLines(str) > 0
  /\ S.doc.y + currentLineHeight(S.doc) > PageHeight - S.doc.margins.bottom

BreakIfOverflow(S, str, opts) ==
  IF Overflows(S, str, opts) THEN DocNewPage(S) ELSE S

\* doc.text
DocText(S, by, str, hasPos, x, y, opts) ==
  AdvanceY(BreakIfOverflow(RecordText(S, by, str, hasPos, x, y, opts),
                           str, opts), str, opts)

\* ------------------------------------------------------------ block renderers
\* theme.spacing.lineGap || 4
LineGapOr4(theme) ==
  IF theme.spacing.lineGap = 0 THEN 4000 ELSE theme.spacing.lineGap

renderHeading1(S, text, x, y, width, theme, spacing) ==
  LET S1 == DocFillColor(DocFont(DocFontSize(S, theme.fontSize.h1),
                                 theme.fonts.heading), theme.colors.heading)
      S2 == DocText(S1, "renderHeading1", text, TRUE, x, y,
                    Opts(FALSE, width, TRUE))
  IN DocFillColor(DocMoveDown(S2, spacing), theme.colors.text)

renderHeading2(S, text, x, y, width, theme, spacing) ==
  LET S1 == DocFillColor(DocFont(DocFontSize(S, theme.fontSize.h2),
                                 theme.fonts.heading), theme.colors.heading)
      S2 == DocText(S1, "renderHeading2", text, TRUE, x, y,
                    Opts(FALSE, width, TRUE))
  IN DocFillColor(DocMoveDown(S2, spacing), theme.colors.text)

renderHeading3(S, text, x, y, width, theme, spacing) ==
  LET S1 == DocFillColor(DocFont(DocFontSize(S, theme.fontSize.h3),
                                 theme.fonts.heading), theme.colors.heading)
      S2 == DocText(S1, "renderHeading3", text, TRUE, x, y,
                    Opts(FALSE, width, TRUE))
  IN DocFillColor(DocMoveDown(S2, spacing), theme.colors.text)

\* Values that are not strings are one-element sequences holding a marker.
JsUndefined == <<"undefined">>
JsNull == <<"null">>
JsNumber42 == <<"number 42">>
NonStrings == {JsUndefined, JsNull, JsNumber42}

\* `${value}` in a template literal
TemplateString(value) ==
  IF value = JsUndefined
    THEN <<"u", "n", "d", "e", "f", "i", "n", "e", "d">>
  ELSE IF value = JsNull THEN <<"n", "u", "l", "l">>
  ELSE IF value = JsNumber42 THEN <<"4", "2">>
  ELSE value

BulletItemLine(content) == <<Bullet, " ">> \o TemplateString(content)

\* the superseded two-call rendering: the marker drawn continued, then the
\* content
renderBulletListItem_TwoCalls(S, content, x, y, contentWidth, hasUrl, theme, spacing) ==
  LET S1 == DocLineGap(DocFontSize(DocFont(S, theme.fonts.body),
                                   theme.fontSize.body), LineGapOr4(theme))
      S2 == DocText(S1, "renderBulletListItem", <<Bullet, " ">>,
                    TRUE, x, S1.doc.y, Opts(TRUE, contentWidth, TRUE))
      S3 == DocText(S2, "renderBulletListItem", content,
                    FALSE, NoPos, NoPos, Opts(FALSE, contentWidth, TRUE))
  IN DocMoveDown(S3, IF hasUrl THEN spacing.listWithUrl ELSE spacing.list)

renderBulletListItem(S, content, x, y, contentWidth, hasUrl, theme, spacing) ==
  LET S1 == DocLineGap(DocFontSize(DocFont(S, theme.fonts.body),
                                   theme.fontSize.body), LineGapOr4(theme))
      S2 == DocText(S1, "renderBulletListItem", BulletItemLine(content),
                    TRUE, x, S1.doc.y, Opts(FALSE, contentWidth, TRUE))
  IN DocMoveDown(S2, IF hasUrl THEN spacing.listWithUrl ELSE spacing.list)

NumberedItemLine(number, content) ==
  number \o <<".", " ">> \o TemplateString(content)

renderNumberedListItem(S, content, number, x, y, contentWidth, hasUrl, theme, spacing) ==
  LET S1 == DocLineGap(DocFontSize(DocFont(S, theme.fonts.body),
                                   theme.fontSize.body), LineGapOr4(theme))
      S2 == DocText(S1, "renderNumberedListItem",
                    NumberedItemLine(number, content),
                    TRUE, x, S1.doc.y, Opts(FALSE, contentWidth, TRUE))
  IN DocMoveDown(S2, IF hasUrl THEN spacing.listWithUrl ELSE spacing.list)

TocItemLine(prefix, content) == prefix \o <<" ">> \o TemplateString(content)

renderTocListItem(S, content, prefix, x, y, contentWidth, theme, spacing) ==
  LET S1 == DocLineGap(DocFontSize(DocFont(S, theme.fonts.body),
                                   theme.fontSize.body), LineGapOr4(theme))
      S2 == DocText(S1, "renderTocListItem", TocItemLine(prefix, content),
                    TRUE, x, S1.doc.y, Opts(FALSE, contentWidth, TRUE))
  IN DocMoveDown(S2, spacing)

quoteIndent == 20000
codeIndent == 10000

renderBlockquote(S, content, x, y, contentWidth, theme, spacing) ==
  LET S1 == DocFillColor(DocFont(DocFontSize(S, theme.fontSize.body),
                                 theme.fonts.italic), theme.colors.blockquote)
      S2 == DocText(S1, "renderBlockquote", content, TRUE, x + quoteIndent, y,
                    Opts(FALSE, contentWidth - quoteIndent, TRUE))
  IN DocMoveDown(DocFillColor(S2, theme.colors.text), spacing)

renderCodeBlock(S, content, x, y, contentWidth, theme, spacing) ==
  LET S1 == DocFillColor(DocFont(DocFontSize(S, theme.fontSize.code),
                                 theme.fonts.code), theme.colors.text)
      S2 == DocText(S1, "renderCodeBlock", content, TRUE, x + codeIndent, y,
                    Opts(FALSE, contentWidth - codeIndent * 2, TRUE))
  IN DocMoveDown(DocFontSize(DocFont(S2, theme.fonts.body),
                             theme.fontSize.body), spacing)

renderHorizontalRule(S, x, right, spacing) == DocMoveDown(DocStroke(S), spacing)

renderParagraph(S, content, x, y, contentWidth, theme, spacing) ==
  LET S1 == DocLineGap(DocFont(DocFontSize(S, theme.fontSize.body),
                               theme.fonts.body), theme.spacing.lineGap)
      S2 == DocText(S1, "renderParagraph", content, TRUE, x, y,
                    Opts(FALSE, contentWidth, TRUE))
  IN DocMoveDown(S2, spacing)

\* -------------------------------------------------- processInlineFormatting
\* One alternative  d ([^c]+) d  of a delimiter pattern tried at index p:
\* the captured content runs to the next c, which must start the closing d.
DelimRun(s, p, d, c) ==
  LET from == p + Len(d)
      stops == {k \in from..Len(s) : s[k] = c}
  IN IF stops = {} THEN Len(s) - from + 1 ELSE Min(stops) - from

DelimAt(s, p, d, c) ==
  /\ HasAt(s, p, d)
  /\ DelimRun(s, p, d, c) >= 1
  /\ HasAt(s, p + Len(d) + DelimRun(s, p, d, c), d)

\* alts is a sequence of <<delimiter, excluded character>> alternatives
AltAt(s, p, alts) ==
  LET ok == {a \in 1..Len(alts) : DelimAt(s, p, alts[a][1], alts[a][2])}
  IN IF ok = {} THEN 0 ELSE Min(ok)

\* String.prototype.replace(/.../g, callback returning ''): the captured
\* groups in match order, and the string with every match removed
RECURSIVE ReplaceAll(_, _, _)
ReplaceAll(s, from, alts) ==
  LET starts == {p \in from..Len(s) : AltAt(s, p, alts) # 0}
  IN IF starts = {}
       THEN [captured |-> << >>, rest |-> SubSeq(s, from, Len(s))]
     ELSE LET p == Min(starts)
              d == alts[AltAt(s, p, alts)][1]
              c == alts[AltAt(s, p, alts)][2]
              run == DelimRun(s, p, d, c)
              tail == ReplaceAll(s, p + 2 * Len(d) + run, alts)
          IN [captured |->
                <<SubSeq(s, p + Len(d), p + Len(d) + run - 1)>>
                  \o tail.captured,
              rest |-> SubSeq(s, from, p - 1) \o tail.rest]

CodeAlts == <<<<<<Backtick>>, Backtick>>>>
BoldAlts == <<<<<<"*", "*">>, "*">>, <<<<"_", "_">>, "_">>>>
ItalicAlts == <<<<<<"_">>, "_">>>>

PIF == "processInlineFormatting"

\* the terminal write left out
CloseChain_Missing(S, width) == S

\* doc.text('', { continued: false, align: 'left', width: contentWidth })
CloseChain(S, width) ==
  DocText(S, PIF, << >>, FALSE, NoPos, NoPos, Opts(FALSE, width, TRUE))

\* the alternating plain / link segments of a text with URL matches
RECURSIVE UrlSegments(_, _, _)
UrlSegments(s, lastIndex, matches) ==
  IF matches = << >>
    THEN IF lastIndex < Len(s)
           THEN <<[text |-> SubSeq(s, lastIndex + 1, Len(s)),
                   isLink |-> FALSE]>>
           ELSE << >>
  ELSE LET m == Head(matches)
           before == IF m[1] - 1 > lastIndex
                       THEN <<[text |-> SubSeq(s, lastIndex + 1, m[1] - 1),
                               isLink |-> FALSE]>>
                       ELSE << >>
       IN before \o <<[text |-> SubSeq(s, m[1], m[2]), isLink |-> TRUE]>>
            \o UrlSegments(s, m[2], Tail(matches))

\* one segment: a link is drawn in the link colour, the first segment is
\* anchored at (startX, doc.y), every segment is drawn continued
LinkColour(S, isLink, colour) == IF isLink THEN DocFillColor(S, colour) ELSE S

AnchoredText(S, str, anchored, startX, opts) ==
  DocText(S, PIF, str, anchored, IF anchored THEN startX ELSE NoPos,
          IF anchored THEN S.doc.y ELSE NoPos, opts)

RenderSegment(S, seg, isFirst, startX, width, th) ==
  LinkColour(
    AnchoredText(LinkColour(S, seg.isLink, th.colors.link), seg.text, isFirst,
                 startX, [Opts(TRUE, width, TRUE) EXCEPT !.link = seg.isLink]),
    seg.isLink, th.colors.text)

\* the loop over the segments
RECURSIVE RenderSegments(_, _, _, _, _, _)
RenderSegments(S, segments, k, startX, width, th) ==
  IF k > Len(segments) THEN S
  ELSE RenderSegments(RenderSegment(S, segments[k], k = 1, startX, width, th),
                      segments, k + 1, startX, width, th)

\* the replace callback: the first one run opens the chain with an empty
\* anchored write, then the captured text is drawn in the pass's font and the
\* font is put back
OpenChain(S, isFirstSegment, startX, width) ==
  IF isFirstSegment
    THEN AnchoredText(S, << >>, TRUE, startX, Opts(TRUE, width, TRUE))
    ELSE S

\* a callback that positions every captured text itself
RenderCallback_Anchored(S, str, isFirstSegment, font, currentFont, startX, width) ==
  DocFont(AnchoredText(DocFont(OpenChain(S, isFirstSegment, startX, width),
                               font),
                       str, TRUE, startX, Opts(TRUE, width, TRUE)),
          currentFont)

RenderCallback(S, str, isFirstSegment, font, currentFont, startX, width) ==
  DocFont(AnchoredText(DocFont(OpenChain(S, isFirstSegment, startX, width),
                               font),
                       str, FALSE, startX, Opts(TRUE, width, TRUE)),
          currentFont)

\* the callbacks run for the captured groups of one pass;
\* isFirstSegment is true until some callback has run
RECURSIVE RenderCaptured(_, _, _, _, _, _, _, _)
RenderCaptured(S, captured, k, isFirstSegment, font, currentFont, startX, width) ==
  IF k > Len(captured) THEN S
  ELSE RenderCaptured(RenderCallback(S, captured[k], isFirstSegment, font,
                                     currentFont, startX, width),
                      captured, k + 1, FALSE, font, currentFont, startX, width)

\* the three replace passes, in the order the code runs them
CodePass(text) == ReplaceAll(text, 1, CodeAlts)
BoldPass(text) == ReplaceAll(CodePass(text).rest, 1, BoldAlts)
ItalicPass(text) == ReplaceAll(BoldPass(text).rest, 1, ItalicAlts)

RenderPasses(S, code, bold, italic, th, currentFont, startX, width) ==
  RenderCaptured(
    RenderCaptured(
      RenderCaptured(S, code, 1, TRUE, th.fonts.code, currentFont, startX,
                     width),
      bold, 1, code = << >>, th.fonts.bold, currentFont, startX, width),
    italic, 1, code = << >> /\ bold = << >>, th.fonts.italic, currentFont,
    startX, width)

\* what is left after the passes is written last; with nothing left, a chain
\* some callback opened is closed by the terminal write
RenderResidue(S, processed, isFirstSegment, startX, width) ==
  IF Trim(processed) # << >>
    THEN AnchoredText(S, processed, isFirstSegment, startX,
                      Opts(FALSE, width, TRUE))
  ELSE IF ~isFirstSegment THEN CloseChain(S, width)
  ELSE S

FormatPasses(S, code, bold, italic, th, currentFont, startX, width) ==
  RenderResidue(RenderPasses(S, code.captured, bold.captured, italic.captured,
                             th, currentFont, startX, width),
                italic.rest,
                /\ code.captured = << >>
                /\ bold.captured = << >>
                /\ italic.captured = << >>,
                startX, width)

HasNoFormatting(text) ==
  /\ ~Includes(text, <<"*", "*">>)
  /\ ~Includes(text, <<"_", "_">>)
  /\ ~Includes(text, <<"_">>)
  /\ ~Includes(text, <<Backtick>>)

FormatText(S, text, th, startX, width) ==
  IF UrlMatches(text, 0) # << >>
    THEN CloseChain(RenderSegments(S, UrlSegments(text, 0,
                                                  UrlMatches(text, 0)),
                                   1, startX, width, th), width)
  ELSE IF HasNoFormatting(text)
    THEN AnchoredText(S, text, TRUE, startX, Opts(FALSE, width, TRUE))
  ELSE FormatPasses(S, CodePass(text), BoldPass(text), ItalicPass(text), th,
                    S.doc.font, startX, width)

processInlineFormatting(S, text, th, xPosition, widthLimit) ==
  FormatText(S, text, th,
             IF xPosition # NoPos THEN xPosition ELSE S.doc.margins.left,
             IF widthLimit # NoWidth THEN widthLimit
             ELSE PageWidth - S.doc.margins.left - S.doc.margins.right)

\* ------------------------------------------------------------------- inputs
PrescanLimit == 20
TocPhrase ==
  <<"t", "a", "b", "l", "e", " ", "o", "f", " ",
    "c", "o", "n", "t", "e", "n", "t", "s">>
Fence == <<Backtick, Backtick, Backtick>>
AnchorOpen == <<"<", "a", " ", "n", "a", "m", "e", "=">>
AnchorClose == <<"<", "/", "a", ">">>

L_Blank == << >>
L_TocHeading ==
  <<"#", " ", "T", "a", "b", "l", "e", " ", "o", "f", " ",
    "C", "o", "n", "t", "e", "n", "t", "s">>
L_TocMention == <<"s", "e", "e", " ">> \o TocPhrase
L_IndentedH1 == <<" ", " ", "#", " ", "c">>
L_H2 == <<"#", "#", " ", "B">>
L_H3 == <<"#", "#", "#", " ", "C">>
L_BulletUrl == <<"-", " ", "s", "e", "e", " ">> \o Http \o <<"a", "b">>
L_NumberedUrl == <<"1", ".", " ">> \o Http \o <<"c", "d">>
L_StarLink == <<"*", " ", "[", "a", "]">>
L_Numbered == <<"2", ".", " ", "b">>
L_Rule == <<"-", "-", "-">>
L_Fence == Fence
L_Quote == <<">", " ", "q">>
L_Anchor == AnchorOpen \o <<"x", ">">> \o AnchorClose
L_Para == <<"p", " ", "q">>
L_ParaBold == <<"a", " ", "*", "*", "b", "*", "*">>

CoreLines ==
  {L_Blank, L_TocHeading, L_IndentedH1, L_BulletUrl, L_Numbered, L_Rule,
   L_Fence}

SampleLines ==
  CoreLines \cup {L_TocMention, L_H2, L_H3, L_NumberedUrl, L_StarLink,
                  L_Quote, L_Anchor, L_Para, L_ParaBold}

CoreDocuments == UNION {[1..n -> CoreLines] : n \in 1..MaxLines}

MixedDocuments == UNION {[1..n -> SampleLines] : n \in 1..MaxMixedLines}

\* documents whose mention of a table of contents lies at or just past the
\* end of the look-ahead window
PaddedDocuments ==
  {[k \in 1..n |-> L_Blank] \o d :
     n \in {PrescanLimit - 1, PrescanLimit},
     d \in UNION {[1..m -> {L_TocMention, L_Numbered}] :
                    m \in 1..MaxMixedLines}}

\* the markdown argument: undefined, or a string (possibly empty)
Undefined == [given |-> FALSE, str |-> << >>]
Markdown(ls) == [given |-> TRUE, str |-> Join(ls)]

\* texts handed to processInlineFormatting
T_Empty == << >>
T_Spaces == <<" ", " ">>
T_Plain == <<"a", " ", "b">>
T_Url == Http \o <<"a", "b">>
T_UrlMid == <<"s", "e", "e", " ">> \o Http \o <<"a", "b">> \o <<" ", "x">>
T_TwoUrls == Http \o <<"a", "b", " ">> \o Https \o <<"c", "(", "d", ")">>
T_Code == <<Backtick, "c", Backtick>>
T_Bold == <<"*", "*", "b", "*", "*">>
T_BoldUnderscore == <<"_", "_", "b", "_", "_", " ", "t">>
T_Italic == <<"a", " ", "_", "i", "_">>
T_Mixed ==
  <<"T", " ", "*", "*", "b", "*", "*", " ", "_", "i", "_", " ",
    Backtick, "c", Backtick, ".">>
\* 'This is **bold** and _italic_ and `code`.'
T_Example ==
  <<"T", "h", "i", "s", " ", "i", "s", " ", "*", "*", "b", "o", "l",
    "d", "*", "*", " ", "a", "n", "d", " ", "_", "i", "t", "a", "l",
    "i", "c", "_", " ", "a", "n", "d", " ", Backtick, "c", "o", "d",
    "e", Backtick, ".">>
T_LoneUnderscore == <<"_">>
T_Unclosed == <<"*", "*", "b", " ", Backtick>>
T_CodeAndSpace == <<" ", Backtick, "c", Backtick, " ">>

InlineTexts ==
  {T_Empty, T_Spaces, T_Plain, T_Url, T_UrlMid, T_TwoUrls, T_Code, T_Bold,
   T_BoldUnderscore, T_Italic, T_Mixed, T_Example, T_LoneUnderscore,
   T_Unclosed, T_CodeAndSpace}

\* the value undefined, which a caller's object may hold under a key
UndefinedValue == "undefined"

\* partial user themes
Themes ==
  {NoKeys,
   [spacing |-> [list |-> 1000]],
   [colors |-> [link |-> UndefinedValue, text |-> "#111111"]]}

\* a document as constructed by generatePdf, before any rendering
\* the Date objects read from the clock: new Date() in the constructor of the
\* document, and creationDate = new Date() in renderMarkdownToPdf
ConstructionDate == [valid |-> TRUE, clock |-> "new PDFDocument"]
creationDate == [valid |-> TRUE, clock |-> "renderMarkdownToPdf"]

InitialDoc ==
  [x |-> DEFAULT_THEME.margins.left,
   y |-> DEFAULT_THEME.margins.top,
   margins |-> DEFAULT_THEME.margins,
   font |-> "Helvetica",
   fontSize |-> 12,
   fillColor |-> "black",
   lineGap |-> 0,
   info |-> [Title |-> "Generated Document", Author |-> "",
             Subject |-> "", Keywords |-> "",
             CreationDate |-> ConstructionDate],
   listeners |-> << >>,
   originalAddPage |-> FALSE,
   pages |-> 1]

\* the same document with the cursor two lines above the bottom margin
LateDoc ==
  [InitialDoc EXCEPT !.y = PageHeight - InitialDoc.margins.bottom - 20000]

\* the same document with the cursor left at a blockquote's indent
IndentedDoc == [InitialDoc EXCEPT !.x = InitialDoc.margins.left + quoteIndent]

\* a document whose margins leave room for a single body line per page
TightDoc == [InitialDoc EXCEPT !.margins.bottom = PageHeight - 72000 - 20000]

\* documents rendered on a nearly full or very short page
OverflowLines == {L_Blank, L_Para, L_Fence, L_Quote}
OverflowDocuments == UNION {[1..n -> OverflowLines] : n \in 1..MaxLines}

\* no further arguments, no request, a single render
NoArgs == [kind |-> "none"]
NoRequest == [stage |-> "none", status |-> 0, error |-> "", docCreated |-> FALSE]
SingleRender == [again |-> FALSE, ran |-> FALSE]
TwoRenders == [again |-> TRUE, ran |-> FALSE]

\* the current time, and the metadata createCoverPage is called with
Now == [valid |-> TRUE, year |-> 2026, month |-> 11, day |-> 4]
D_NotADate == <<"n", "o", "t", "-", "a", "-", "d", "a", "t", "e">>
D_Valid == <<"2", "0", "2", "4", "-", "0", "7", "-", "3", "0">>
D_BadMonth == <<"2", "0", "2", "4", "-", "1", "3", "-", "0", "1">>
MetadataValues ==
  [title |-> {<<"T">>}, author |-> {<<"A">>},
   date |-> {<< >>, D_NotADate, D_Valid, D_BadMonth}]
CoverMetadata ==
  UNION {[keys -> UNION {MetadataValues[k] : k \in keys}] :
           keys \in SUBSET {"title", "author", "date"}}

\* the opening delimiters of front matter
YamlOpen == <<"-", "-", "-">>
CodeBlockOpen == Fence \o <<"y", "a", "m", "l">>

\* requests: the X-API-Key header, API_KEY_SECRET and the body's content
K_Secret == <<"k", "1">>
K_Other == <<"k", "2">>
B_Plain == <<"p", " ", "q">>
B_Titled ==
  <<"-", "-", "-", NL, "t", "i", "t", "l", "e", ":", " ", "T", NL,
    "-", "-", "-", NL, NL, "#", " ", "A", NL, "x">>
B_OnlyFrontMatter ==
  <<"-", "-", "-", " ", NL, NL, "a", "u", "t", "h", "o", "r", ":", "A", NL,
    "d", "a", "t", "e", ":", " ", "n", "o", NL, "-", "-", "-", NL, NL>>
B_Yaml ==
  CodeBlockOpen \o <<NL, "d", "a", "t", "e", ":", " ">> \o D_Valid
    \o <<NL>> \o Fence \o <<NL, "-", " ", "i">>
B_Dated ==
  <<"-", "-", "-", NL, "a", "u", "t", "h", "o", "r", ":", " ", "A", NL,
    "d", "a", "t", "e", ":", " ">> \o D_Valid \o <<NL, "-", "-", "-", NL, "x">>
Requests ==
  [kind : {"request"},
   route : {"/generate-pdf", "/generate-pdf (plain)", "/generate-pdf-buffer"},
   apiKey : {JsUndefined, << >>, K_Secret, K_Other},
   secret : {JsUndefined, << >>, K_Secret},
   content : {JsUndefined, << >>, B_Plain, B_Titled, B_OnlyFrontMatter,
              B_Yaml, B_Dated},
   now : {Now}]

\* the block renderers that take a y argument
BlockRenderers ==
  {"renderHeading1", "renderHeading2", "renderHeading3",
   "renderBulletListItem", "renderNumberedListItem", "renderTocListItem",
   "renderBlockquote", "renderCodeBlock", "renderParagraph"}

\* the pages a function is called on directly
CalledOnDocs == {InitialDoc, LateDoc, TightDoc}

\* -------------------------------------------------------------------- state
\* ------------------------------------------------------------------ pdfStore
DEFAULT_TTL == 1800000

\* bounds of the store behaviours: calls of storePdf and advances of the clock
MaxStores == 2
MaxTicks == 3

StartTime == 1000
ClockSteps == {1, DEFAULT_TTL}
RandomStrings == {"k3x9"}
Buffers == {"%PDF a", "%PDF b"}
StoreMetadata == {NoKeys, [title |-> "T"]}

\* a Map is the set of its [key, value] pairs, one pair for a key
EmptyMap == {}
MapKeys(map) == {e.key : e \in map}
MapGet(map, key) == (CHOOSE e \in map : e.key = key).value
MapDelete(map, key) == {e \in map : e.key # key}
MapSet(map, key, value) ==
  MapDelete(map, key) \cup {[key |-> key, value |-> value]}

\* `${Date.now()}-${Math.random().toString(36).substring(2, 10)}`
StoreId(t, random) == [at |-> t, random |-> random]
NeverStored == StoreId(0, "k3x9")
\* the string 'all'; every generated id has a '-' in it and is another string
AllPdfs == [at |-> 0, random |-> "all"]
NullResult == [kind |-> "null"]
NoStoreCalls ==
  [stored |-> EmptyMap, stores |-> 0, ticks |-> 0,
   op |-> "none", id |-> NeverStored, result |-> NullResult, at |-> 0]

cleanupExpiredPdfs(store, t) == {e \in store : ~(e.value.expires < t)}

\* the entry set by storePdf at time t
StoredEntry(pdfBuffer, metadata, t) ==
  [pdf |-> pdfBuffer, metadata |-> metadata, created |-> t,
   expires |-> t + DEFAULT_TTL]

storePdf(store, pdfBuffer, metadata, id, t) ==
  cleanupExpiredPdfs(MapSet(store, id, StoredEntry(pdfBuffer, metadata, t)), t)

\* a lookup that never looks at the expiry time
getPdf_NoExpiry(store, id, t) ==
  IF id = AllPdfs
    THEN [store |-> cleanupExpiredPdfs(store, t),
          result |-> cleanupExpiredPdfs(store, t)]
  ELSE IF id \notin MapKeys(store)
    THEN [store |-> store, result |-> NullResult]
  ELSE [store |-> store, result |-> MapGet(store, id)]

getPdf(store, id, t) ==
  IF id = AllPdfs
    THEN [store |-> cleanupExpiredPdfs(store, t),
          result |-> cleanupExpiredPdfs(store, t)]
  ELSE IF id \notin MapKeys(store)
    THEN [store |-> store, result |-> NullResult]
  ELSE IF MapGet(store, id).expires < t
    THEN [store |-> MapDelete(store, id), result |-> NullResult]
  ELSE [store |-> store, result |-> MapGet(store, id)]

getStoreSize(store, t) ==
  [store |-> cleanupExpiredPdfs(store, t),
   result |-> Cardinality(cleanupExpiredPdfs(store, t))]

VARIABLES
  entry,              \* which function the behaviour calls
  inlineText,         \* processInlineFormatting: the text argument
  md,                 \* renderMarkdownToPdf: the markdown argument
  docGiven,           \* renderMarkdownToPdf: whether a document was passed
  theme,              \* the partial user theme argument
  pc,                 \* "start", "loop", "done" or "threw"
  lines,              \* markdown.split('\n')
  i,                  \* loop index, 1-based
  inTableOfContents,
  inList,
  urlLastIndex,       \* urlPattern.lastIndex
  doc,                \* the document's fields
  texts,              \* every doc.text call issued so far
  docCalls,           \* number of document methods invoked so far
  currentPage,
  lastMoveDown,
  footerRuns,         \* the state before and after each pageAdded footer
  calls,              \* every block renderer call made by the loop so far
  args,               \* the other arguments of the call or request made
  http,               \* the progress of and the response to an HTTP request
  firstRender,        \* what an earlier render of the same input produced
  pdfStore,           \* pdfStore.js: the Map from id to stored entry
  dateNow,            \* Date.now(), in milliseconds
  storeLog            \* what was stored under each id, and the last call

vars ==
  <<entry, inlineText, md, docGiven, theme, pc, lines, i, inTableOfContents, inList,
    urlLastIndex, doc, texts, docCalls, currentPage, lastMoveDown,
    footerRuns, calls,
    args, http, firstRender, pdfStore, dateNow, storeLog>>

storeVars == <<pdfStore, dateNow, storeLog>>

callerVars == <<args, http, firstRender, pdfStore, dateNow, storeLog>>

Surface ==
  [doc |-> doc, texts |-> texts, docCalls |-> docCalls,
   currentPage |-> currentPage, lastMoveDown |-> lastMoveDown,
   footerRuns |-> footerRuns]

Commit(S) ==
  /\ doc' = S.doc
  /\ texts' = S.texts
  /\ docCalls' = S.docCalls
  /\ currentPage' = S.currentPage
  /\ lastMoveDown' = S.lastMoveDown
  /\ footerRuns' = S.footerRuns

Init ==
  /\ \/ /\ entry = "renderMarkdownToPdf"
        /\ inlineText = << >>
        /\ args = NoArgs
        /\ http = NoRequest
        /\ pc = "start"
        /\ \/ /\ md \in {Markdown(ls) : ls \in CoreDocuments}
              /\ docGiven = TRUE
              /\ theme = NoKeys
              /\ doc = InitialDoc
              /\ firstRender = SingleRender
           \/ /\ md \in {Undefined}
                        \cup {Markdown(ls) :
                                ls \in MixedDocuments \cup PaddedDocuments}
              /\ docGiven \in BOOLEAN
              /\ theme \in Themes
              /\ doc = InitialDoc
              /\ firstRender \in {SingleRender, TwoRenders}
           \/ /\ md \in {Markdown(ls) : ls \in OverflowDocuments}
              /\ docGiven = TRUE
              /\ theme = NoKeys
              /\ doc \in {LateDoc, TightDoc}
              /\ firstRender = SingleRender
     \/ /\ entry = "processInlineFormatting"
        /\ inlineText \in InlineTexts
        /\ md = Undefined
        /\ docGiven = TRUE
        /\ theme \in Themes
        /\ doc \in {InitialDoc, IndentedDoc}
        /\ args = NoArgs
        /\ http = NoRequest
        /\ firstRender = SingleRender
        /\ pc = "start"
     \/ /\ entry = "request"
        /\ args \in Requests
        /\ http = [NoRequest EXCEPT !.stage = "received"]
        /\ doc = InitialDoc
        /\ theme = NoKeys
        /\ inlineText = << >>
        /\ md = Undefined
        /\ docGiven = TRUE
        /\ firstRender = SingleRender
        /\ pc = "idle"
     \/ /\ entry = "blockRenderer"
        /\ doc \in CalledOnDocs
        /\ args \in {[kind |-> "block", renderer |-> r, content |-> <<"a">>,
                       dy |-> d, startY |-> doc.y] :
                      r \in BlockRenderers, d \in {0, 36000}}
        /\ theme \in Themes
        /\ inlineText = << >>
        /\ md = Undefined
        /\ docGiven = TRUE
        /\ http = NoRequest
        /\ firstRender = SingleRender
        /\ pc = "start"
     \/ /\ entry = "renderBulletListItem"
        /\ args \in {[kind |-> "item", content |-> c, hasUrl |-> u] :
                      c \in NonStrings \cup {<<"a">>}, u \in BOOLEAN}
        /\ doc \in CalledOnDocs
        /\ theme \in Themes
        /\ inlineText = << >>
        /\ md = Undefined
        /\ docGiven = TRUE
        /\ http = NoRequest
        /\ firstRender = SingleRender
        /\ pc = "start"
     \/ /\ entry = "createCoverPage"
        /\ args \in {[kind |-> "cover", metadata |-> m, now |-> Now] :
                      m \in {c \in CoverMetadata :
                               \A k \in DOMAIN c : c[k] \in MetadataValues[k]}}
        /\ doc \in CalledOnDocs
        /\ theme \in Themes
        /\ inlineText = << >>
        /\ md = Undefined
        /\ docGiven = TRUE
        /\ http = NoRequest
        /\ firstRender = SingleRender
        /\ pc = "start"
     \/ /\ entry \in {"visualizeMargins", "monitorPageBreaks", "logPosition"}
        /\ args \in IF entry = "visualizeMargins"
                       THEN {[kind |-> "options", fillBackground |-> b] :
                               b \in BOOLEAN}
                     ELSE {NoArgs}
        /\ doc \in CalledOnDocs
        /\ theme = NoKeys
        /\ inlineText = << >>
        /\ md = Undefined
        /\ docGiven = TRUE
        /\ http = NoRequest
        /\ firstRender = SingleRender
        /\ pc = "start"
     \/ /\ entry = "pdfStore"
        /\ args = NoArgs
        /\ doc = InitialDoc
        /\ theme = NoKeys
        /\ inlineText = << >>
        /\ md = Undefined
        /\ docGiven = TRUE
        /\ http = NoRequest
        /\ firstRender = SingleRender
        /\ pc = "idle"
  /\ pdfStore = EmptyMap
  /\ dateNow = StartTime
  /\ storeLog = NoStoreCalls
  /\ lines = << >>
  /\ i = 0
  /\ inTableOfContents = FALSE
  /\ inList = FALSE
  /\ urlLastIndex = 0
  /\ texts = << >>
  /\ docCalls = 0
  /\ currentPage = 0
  /\ lastMoveDown = 0
  /\ footerRuns = << >>
  /\ calls = << >>

\* ------------------------------------------------------ renderMarkdownToPdf
mergedTheme == createMergedTheme(theme)
leftMargin == doc.margins.left
rightMargin == doc.margins.right
contentWidth == PageWidth - leftMargin - rightMargin

\* a guard that forgets the empty string
MissingParameters_NullOnly == ~md.given \/ ~docGiven

\* renderMarkdownToPdf is running: called by itself, or by a request handler
Rendering ==
  \/ entry = "renderMarkdownToPdf"
  \/ entry = "request" /\ http.stage = "rendering"

\* !markdown || !doc
MissingParameters == ~md.given \/ md.str = << >> \/ ~docGiven

\* if (!markdown || !doc) throw new Error('Missing required parameters')
Reject ==
  /\ Rendering
  /\ pc = "start"
  /\ MissingParameters
  /\ pc' = "threw"
  /\ UNCHANGED callerVars
  /\ UNCHANGED <<entry, inlineText, md, docGiven, theme, lines, i, inTableOfContents,
                 inList, urlLastIndex, doc, texts, docCalls, currentPage,
                 lastMoveDown, footerRuns, calls>>

\* monitorPageBreaks(doc)
monitorPageBreaks(S) ==
  IF S.doc.originalAddPage THEN S
  ELSE [Invoke(S) EXCEPT
          !.doc.originalAddPage = TRUE,
          !.doc.listeners = Append(@, [kind |-> "log", theme |-> NoKeys])]

\* doc.info is created when absent, else only CreationDate is replaced
InfoDefaults ==
  [Title |-> "Markdown Rendered PDF", Author |-> "PDF Microservice",
   Subject |-> "Markdown to PDF Conversion",
   Keywords |-> "markdown, pdf, conversion",
   Creator |-> "PDF Microservice", Producer |-> "PDFKit",
   CreationDate |-> creationDate]

\* an info step that writes the defaults over an existing doc.info
SetInfo_Replace(S) == [S EXCEPT !.doc.info = InfoDefaults]

SetInfo(S) ==
  IF S.doc.info = NoKeys
    THEN [S EXCEPT !.doc.info = InfoDefaults]
    ELSE [S EXCEPT !.doc.info.CreationDate = creationDate]

\* a look-ahead that does not stop at the limit
Prescan_Unlimited(ls) ==
  \E k \in 1..Len(ls) : Includes(ToLowerCase(Trim(ls[k])), TocPhrase)

\* the look-ahead over the first lines for a Table of Contents
Prescan(ls) ==
  \E k \in 1..(IF Len(ls) < PrescanLimit THEN Len(ls) ELSE PrescanLimit) :
    Includes(ToLowerCase(Trim(ls[k])), TocPhrase)

\* doc.text('', leftMargin, doc.y, { align: 'left', continued: false })
Realign(S) ==
  DocText(S, "renderMarkdownToPdf", << >>, TRUE, S.doc.margins.left, S.doc.y,
          Opts(FALSE, NoWidth, TRUE))

\* one pattern object kept by the module and shared by every call
NewUrlPattern_Shared(previous) == previous

\* const urlPattern = /.../g inside the function: each call creates its own
\* pattern object, whose lastIndex starts at 0 whatever an earlier call left
NewUrlPattern(previous) == 0

\* everything renderMarkdownToPdf does before its main loop
Begin ==
  /\ Rendering
  /\ pc = "start"
  /\ ~MissingParameters
  /\ LET S1 == SetInfo(monitorPageBreaks(Surface))
         S2 == addPageFooter([S1 EXCEPT !.currentPage = 1], 1, mergedTheme)
         S3 == [Invoke(S2) EXCEPT
                  !.doc.listeners =
                     Append(@, [kind |-> "footer", theme |-> mergedTheme])]
         S4 == DocFillColor(
                 DocLineGap(
                   DocFontSize(DocFont(S3, mergedTheme.fonts.body),
                               mergedTheme.fontSize.body),
                   mergedTheme.spacing.lineGap),
                 mergedTheme.colors.text)
     IN Commit(Realign(S4))
  /\ lines' = Split(md.str)
  /\ inTableOfContents' = Prescan(Split(md.str))
  /\ inList' = FALSE
  /\ i' = 1
  /\ urlLastIndex' = NewUrlPattern(urlLastIndex)
  /\ pc' = "loop"
  /\ UNCHANGED callerVars
  /\ UNCHANGED <<entry, inlineText, md, docGiven, theme, calls>>

\* ---------------------------------------------------------------- main loop
InLoop == Rendering /\ pc = "loop" /\ i <= Len(lines)

line == lines[i]
trimmedLine == Trim(lines[i])

\* a check that leaves TOC mode on any line starting with a rule character
TocAfterRuleCheck_AnyDash(t, toc) ==
  IF toc /\ Len(t) >= 1 /\ t[1] \in {"-", "*", "_"} THEN FALSE ELSE toc

\* the TOC flag after the "leaving the TOC section" check of the iteration
TocAfterRuleCheck(t, toc) == IF toc /\ RuleMatch(t) THEN FALSE ELSE toc

IsBulletLine(t) == StartsWith(t, <<"-", " ">>) \/ StartsWith(t, <<"*", " ">>)

\* the chain with the bullet test ahead of the TOC test
Branch_BulletFirst(t, toc) ==
  IF StartsWith(t, <<"#", " ">>) THEN "heading1"
  ELSE IF StartsWith(t, <<"#", "#", " ">>) THEN "heading2"
  ELSE IF StartsWith(t, <<"#", "#", "#", " ">>) THEN "heading3"
  ELSE IF IsBulletLine(t) THEN "bullet"
  ELSE IF toc /\ (NumberedMatch(t) \/ (IsBulletLine(t) /\ BracketTokenMatch(t)))
    THEN "toc"
  ELSE IF NumberedMatch(t) THEN "numbered"
  ELSE IF StartsWith(t, <<">", " ">>) THEN "blockquote"
  ELSE IF RuleMatch(t) THEN "rule"
  ELSE IF StartsWith(t, Fence) THEN "code"
  ELSE IF StartsWith(t, AnchorOpen) /\ EndsWith(t, AnchorClose) THEN "anchor"
  ELSE "paragraph"

\* the if / else-if chain of the loop body: the branch taken for a non-blank
\* trimmed line t when the TOC flag is toc
Branch(t, toc) ==
  IF StartsWith(t, <<"#", " ">>) THEN "heading1"
  ELSE IF StartsWith(t, <<"#", "#", " ">>) THEN "heading2"
  ELSE IF StartsWith(t, <<"#", "#", "#", " ">>) THEN "heading3"
  ELSE IF toc /\ (NumberedMatch(t) \/ (IsBulletLine(t) /\ BracketTokenMatch(t)))
    THEN "toc"
  ELSE IF IsBulletLine(t) THEN "bullet"
  ELSE IF NumberedMatch(t) THEN "numbered"
  ELSE IF StartsWith(t, <<">", " ">>) THEN "blockquote"
  ELSE IF RuleMatch(t) THEN "rule"
  ELSE IF StartsWith(t, Fence) THEN "code"
  ELSE IF StartsWith(t, AnchorOpen) /\ EndsWith(t, AnchorClose) THEN "anchor"
  ELSE "paragraph"

Takes(b) ==
  /\ InLoop
  /\ trimmedLine # << >>
  /\ Branch(trimmedLine, TocAfterRuleCheck(trimmedLine, inTableOfContents)) = b

\* the record of one renderer call: its arguments, the cursor it started at,
\* the text calls issued while it ran and the spacing it moved down by
Dispatch(renderer, content, prefix, hasUrl, toc, S) ==
  [renderer |-> renderer, line |-> i, content |-> content, prefix |-> prefix,
   hasUrl |-> hasUrl, toc |-> toc, atY |-> doc.y,
   drawn |-> SubSeq(S.texts, Len(texts) + 1, Len(S.texts)),
   moved |-> S.lastMoveDown]

\* the end of an iteration that falls through to the alignment reset
EndOfIteration(S) ==
  /\ Commit(IF i < Len(lines) THEN Realign(S) ELSE S)
  /\ i' = i + 1
  /\ UNCHANGED callerVars
  /\ UNCHANGED <<entry, inlineText, md, docGiven, theme, pc, lines>>

\* if (!trimmedLine) { doc.moveDown(SPACING.emptyLine); continue; }
EmptyLine ==
  /\ InLoop
  /\ trimmedLine = << >>
  /\ Commit(DocMoveDown(Surface, SPACING(mergedTheme).emptyLine))
  /\ i' = i + 1
  /\ UNCHANGED callerVars
  /\ UNCHANGED <<entry, inlineText, md, docGiven, theme, pc, lines, inTableOfContents,
                 inList, urlLastIndex, calls>>

Heading1 ==
  /\ Takes("heading1")
  /\ LET text == ReplaceFirst(trimmedLine, <<"#", " ">>, << >>)
         toc == Includes(ToLowerCase(trimmedLine), TocPhrase)
         S == renderHeading1(Surface, text, leftMargin, doc.y, contentWidth,
                             mergedTheme, SPACING(mergedTheme).heading1)
     IN /\ inTableOfContents' = toc
        /\ calls' = Append(calls, Dispatch("renderHeading1", text, << >>,
                                           FALSE, toc, S))
        /\ EndOfIteration(S)
  /\ UNCHANGED <<inList, urlLastIndex>>

Heading2 ==
  /\ Takes("heading2")
  /\ LET text == ReplaceFirst(trimmedLine, <<"#", "#", " ">>, << >>)
         toc == TocAfterRuleCheck(trimmedLine, inTableOfContents)
         S == renderHeading2(Surface, text, leftMargin, doc.y, contentWidth,
                             mergedTheme, SPACING(mergedTheme).heading2)
     IN /\ inTableOfContents' = toc
        /\ calls' = Append(calls, Dispatch("renderHeading2", text, << >>,
                                           FALSE, toc, S))
        /\ EndOfIteration(S)
  /\ UNCHANGED <<inList, urlLastIndex>>

Heading3 ==
  /\ Takes("heading3")
  /\ LET text == ReplaceFirst(trimmedLine, <<"#", "#", "#", " ">>, << >>)
         toc == TocAfterRuleCheck(trimmedLine, inTableOfContents)
         S == renderHeading3(Surface, text, leftMargin, doc.y, contentWidth,
                             mergedTheme, SPACING(mergedTheme).heading3)
     IN /\ inTableOfContents' = toc
        /\ calls' = Append(calls, Dispatch("renderHeading3", text, << >>,
                                           FALSE, toc, S))
        /\ EndOfIteration(S)
  /\ UNCHANGED <<inList, urlLastIndex>>

TocItem ==
  /\ Takes("toc")
  /\ LET numbered == NumberedMatch(trimmedLine)
         prefix == IF numbered THEN NumberPrefix(trimmedLine) \o <<" ">>
                   ELSE <<Bullet, " ">>
         content == IF numbered THEN StripNumber(trimmedLine)
                    ELSE Drop(trimmedLine, 2)
         toc == TocAfterRuleCheck(trimmedLine, inTableOfContents)
         S == renderTocListItem(Surface, content, prefix, leftMargin, doc.y,
                                contentWidth, mergedTheme,
                                SPACING(mergedTheme).tocItem)
     IN /\ inTableOfContents' = toc
        /\ calls' = Append(calls, Dispatch("renderTocListItem", content,
                                           prefix, FALSE, toc, S))
        /\ EndOfIteration(S)
  /\ UNCHANGED <<inList, urlLastIndex>>

BulletItem ==
  /\ Takes("bullet")
  /\ LET listContent == Drop(trimmedLine, 2)
         tested == UrlTest(listContent, urlLastIndex)
         toc == TocAfterRuleCheck(trimmedLine, inTableOfContents)
         S == renderBulletListItem(Surface, listContent, leftMargin, doc.y,
                                   contentWidth, tested.found, mergedTheme,
                                   SPACING(mergedTheme))
     IN /\ urlLastIndex' = tested.lastIndex
        /\ inTableOfContents' = toc
        /\ calls' = Append(calls, Dispatch("renderBulletListItem", listContent,
                                           << >>, tested.found, toc, S))
        /\ EndOfIteration(S)
  /\ inList' = TRUE

NumberedItem ==
  /\ Takes("numbered")
  /\ LET listContent == StripNumber(trimmedLine)
         tested == UrlTest(listContent, urlLastIndex)
         number == NumberPrefix(trimmedLine)
         toc == TocAfterRuleCheck(trimmedLine, inTableOfContents)
         S == renderNumberedListItem(Surface, listContent, number, leftMargin,
                                     doc.y, contentWidth, tested.found,
                                     mergedTheme, SPACING(mergedTheme))
     IN /\ urlLastIndex' = tested.lastIndex
        /\ inTableOfContents' = toc
        /\ calls' = Append(calls, Dispatch("renderNumberedListItem",
                                           listContent, number, tested.found,
                                           toc, S))
        /\ EndOfIteration(S)
  /\ inList' = TRUE

Blockquote ==
  /\ Takes("blockquote")
  /\ LET quoteContent == Drop(trimmedLine, 2)
         toc == TocAfterRuleCheck(trimmedLine, inTableOfContents)
         S == renderBlockquote(Surface, quoteContent, leftMargin, doc.y,
                               contentWidth, mergedTheme,
                               SPACING(mergedTheme).blockquote)
     IN /\ inTableOfContents' = toc
        /\ calls' = Append(calls, Dispatch("renderBlockquote", quoteContent,
                                           << >>, FALSE, toc, S))
        /\ EndOfIteration(S)
  /\ UNCHANGED <<inList, urlLastIndex>>

HorizontalRule ==
  /\ Takes("rule")
  /\ LET S == renderHorizontalRule(Surface, leftMargin, rightMargin,
                                   SPACING(mergedTheme).horizontalRule)
     IN /\ inTableOfContents' = FALSE
        /\ calls' = Append(calls, Dispatch("renderHorizontalRule", << >>,
                                           << >>, FALSE, FALSE, S))
        /\ EndOfIteration(S)
  /\ UNCHANGED <<inList, urlLastIndex>>

\* a scan that takes the line after the opening fence for the closing one
CodeBlockEnd_NextLine(ls, k) ==
  LET closers == {e \in (k + 1)..Len(ls) : StartsWith(Trim(ls[e]), Fence)}
  IN IF closers = {} THEN Len(ls) + 1 ELSE k + 1

\* a scan that stops on the last line when no fence closes the block
CodeBlockEnd_StopAtLast(ls, k) ==
  LET closers == {e \in (k + 1)..Len(ls) : StartsWith(Trim(ls[e]), Fence)}
  IN IF closers = {} THEN Len(ls) ELSE Min(closers)

\* a scan whose result leaves the loop on the closing fence
CodeBlockEnd_BeforeFence(ls, k) ==
  LET closers == {e \in (k + 1)..Len(ls) : StartsWith(Trim(ls[e]), Fence)}
  IN IF closers = {} THEN Len(ls) + 1 ELSE Min(closers) - 1

\* index of the closing fence of the block opened at line k, Len(ls) + 1
\* when no later line starts with the fence
CodeBlockEnd(ls, k) ==
  LET closers == {e \in (k + 1)..Len(ls) : StartsWith(Trim(ls[e]), Fence)}
  IN IF closers = {} THEN Len(ls) + 1 ELSE Min(closers)

CodeBlock ==
  /\ Takes("code")
  /\ LET codeBlockEnd == CodeBlockEnd(lines, i)
         codeContent == Join(SubSeq(lines, i + 1, codeBlockEnd - 1))
         toc == TocAfterRuleCheck(trimmedLine, inTableOfContents)
         S == renderCodeBlock(Surface, codeContent, leftMargin, doc.y,
                              contentWidth, mergedTheme,
                              SPACING(mergedTheme).codeBlock)
     IN /\ inTableOfContents' = toc
        /\ calls' = Append(calls, Dispatch("renderCodeBlock", codeContent,
                                           << >>, FALSE, toc, S))
        /\ Commit(S)
        /\ i' = codeBlockEnd + 1
  /\ UNCHANGED callerVars
  /\ UNCHANGED <<entry, inlineText, md, docGiven, theme, pc, lines, inList, urlLastIndex>>

\* an HTML anchor tag is skipped
Anchor ==
  /\ Takes("anchor")
  /\ inTableOfContents' = TocAfterRuleCheck(trimmedLine, inTableOfContents)
  /\ i' = i + 1
  /\ UNCHANGED callerVars
  /\ UNCHANGED <<entry, inlineText, md, docGiven, theme, pc, lines, inList, urlLastIndex,
                 doc, texts, docCalls, currentPage, lastMoveDown, footerRuns, calls>>

Paragraph ==
  /\ Takes("paragraph")
  /\ LET toc == TocAfterRuleCheck(trimmedLine, inTableOfContents)
         S == renderParagraph(Surface, trimmedLine, leftMargin, doc.y,
                              contentWidth, mergedTheme,
                              SPACING(mergedTheme).paragraph)
     IN /\ inTableOfContents' = toc
        /\ calls' = Append(calls, Dispatch("renderParagraph", trimmedLine,
                                           << >>, FALSE, toc, S))
        /\ EndOfIteration(S)
  /\ inList' = FALSE
  /\ UNCHANGED urlLastIndex

\* the loop condition fails: renderMarkdownToPdf returns
Return ==
  /\ Rendering
  /\ pc = "loop"
  /\ i > Len(lines)
  /\ pc' = "done"
  /\ UNCHANGED callerVars
  /\ UNCHANGED <<entry, inlineText, md, docGiven, theme, lines, i, inTableOfContents,
                 inList, urlLastIndex, doc, texts, docCalls, currentPage,
                 lastMoveDown, footerRuns, calls>>

\* one call of processInlineFormatting(text, doc, theme)
InlineFormat ==
  /\ entry = "processInlineFormatting"
  /\ pc = "start"
  /\ Commit(processInlineFormatting(Surface, inlineText, mergedTheme, NoPos,
                                    NoWidth))
  /\ pc' = "done"
  /\ UNCHANGED callerVars
  /\ UNCHANGED <<entry, inlineText, md, docGiven, theme, lines, i,
                 inTableOfContents, inList, urlLastIndex, calls>>

\* ---------------------------------------------------------------- diagnostics
\* doc.save() and doc.restore() bracket the graphics state, of which the fill
\* colour is part; the cursor and the font size belong to the document object
DocSave(S) == Invoke(S)
DocRestore(S, fillColor) == [Invoke(S) EXCEPT !.doc.fillColor = fillColor]

\* doc.rect(x, y, width, height).fill('#f9f9f9') when fillBackground is set
FillBackground(S, fillBackground) ==
  IF fillBackground THEN DocFillColor(Invoke(S), "#f9f9f9") ELSE S

\* strokeColor(borderColor).lineWidth(0.5).rect(x, y, width, height).stroke()
MarginBoundaries(S) == Invoke(Invoke(Invoke(Invoke(S))))

\* one guideline and its label every 100 points above the bottom margin
RECURSIVE Guidelines(_, _, _)
Guidelines(S, x, yLine) ==
  IF yLine < PageHeight - S.doc.margins.bottom
    THEN Guidelines(
           DocText(DocFillColor(DocFontSize(DocStroke(S), 8), "#999999"),
                   "visualizeMargins",
                   <<"y", ":", " ">> \o NumToStr(yLine \div 1000),
                   TRUE, x + 5000, yLine - 10000, Opts(FALSE, 50000, TRUE)),
           x, yLine + 100000)
  ELSE S

\* visualizeMargins(doc, options)
visualizeMargins(S, fillBackground) ==
  DocRestore(
    Guidelines(
      Invoke(Invoke(MarginBoundaries(FillBackground(DocSave(S),
                                                    fillBackground)))),
      S.doc.margins.left, S.doc.margins.top + 100000),
    S.doc.fillColor)

\* logPosition(doc, label) writes to the console only
logPosition(S) == S

Diagnostics == {"visualizeMargins", "monitorPageBreaks", "logPosition"}

VisualizeMargins ==
  /\ entry = "visualizeMargins"
  /\ pc = "start"
  /\ Commit(visualizeMargins(Surface, args.fillBackground))
  /\ pc' = "done"
  /\ UNCHANGED callerVars
  /\ UNCHANGED <<entry, inlineText, md, docGiven, theme, lines, i,
                 inTableOfContents, inList, urlLastIndex, calls>>

MonitorPageBreaks ==
  /\ entry = "monitorPageBreaks"
  /\ pc = "start"
  /\ Commit(monitorPageBreaks(Surface))
  /\ pc' = "done"
  /\ UNCHANGED callerVars
  /\ UNCHANGED <<entry, inlineText, md, docGiven, theme, lines, i,
                 inTableOfContents, inList, urlLastIndex, calls>>

LogPosition ==
  /\ entry = "logPosition"
  /\ pc = "start"
  /\ Commit(logPosition(Surface))
  /\ pc' = "done"
  /\ UNCHANGED callerVars
  /\ UNCHANGED <<entry, inlineText, md, docGiven, theme, lines, i,
                 inTableOfContents, inList, urlLastIndex, calls>>

\* ----------------------------------------------------------- createCoverPage
\* A Date is [valid, year, month, day]; an Invalid Date has valid = FALSE.
InvalidDate == [valid |-> FALSE, year |-> 0, month |-> 0, day |-> 0]

DigitValue(c) == CHOOSE n \in 0..9 : NumToStr(n) = <<c>>

Number2(s, k) == 10 * DigitValue(s[k]) + DigitValue(s[k + 1])

\* new Date(string) for the date-only form YYYY-MM-DD; any other string
\* gives an Invalid Date
ParseDate(s) ==
  IF /\ Len(s) = 10
     /\ s[5] = "-"
     /\ s[8] = "-"
     /\ \A k \in {1, 2, 3, 4, 6, 7, 9, 10} : s[k] \in Digits
     /\ Number2(s, 6) \in 1..12
     /\ Number2(s, 9) \in 1..31
    THEN [valid |-> TRUE, year |-> 100 * Number2(s, 1) + Number2(s, 3),
          month |-> Number2(s, 6), day |-> Number2(s, 9)]
  ELSE InvalidDate

\* docDate.toLocaleDateString()
toLocaleDateString(d) ==
  IF d.valid
    THEN NumToStr(d.month) \o <<"/">> \o NumToStr(d.day) \o <<"/">>
           \o NumToStr(d.year)
  ELSE <<"I", "n", "v", "a", "l", "i", "d", " ", "D", "a", "t", "e">>

\* metadata?.key || fallback
MetadataOr(metadata, key, fallback) ==
  IF key \in DOMAIN metadata /\ metadata[key] # << >>
    THEN metadata[key]
  ELSE fallback

\* the date is parsed whenever one is given
docDate_Unchecked(metadata, now) ==
  IF MetadataOr(metadata, "date", << >>) # << >>
    THEN ParseDate(metadata.date)
  ELSE now

\* metadata.date parsed, or the current time when absent or invalid
docDate(metadata, now) ==
  IF MetadataOr(metadata, "date", << >>) # << >>
    THEN IF ParseDate(metadata.date).valid THEN ParseDate(metadata.date)
         ELSE now
  ELSE now

CoverInfo(metadata, date) ==
  [Title |-> MetadataOr(metadata, "title",
                        <<"G", "e", "n", "e", "r", "a", "t", "e", "d", " ",
                          "D", "o", "c", "u", "m", "e", "n", "t">>),
   Author |-> MetadataOr(metadata, "author", << >>),
   Subject |-> "Markdown Rendered PDF",
   Keywords |-> "",
   Creator |-> "PDF Microservice",
   Producer |-> "PDFKit",
   CreationDate |-> date]

\* doc.text(str, x, y, {width, align: 'center', lineGap}) with x centring the
\* string: the lineGap option holds for this call only
CenteredText(S, str, y, lineGap) ==
  [DocText([S EXCEPT !.doc.lineGap = lineGap], "createCoverPage", str, TRUE,
           (PageWidth - widthOfString(S.doc, str)) \div 2, y,
           Opts(FALSE, widthOfString(S.doc, str), TRUE))
     EXCEPT !.doc.lineGap = S.doc.lineGap]

CoverTitle(S, title, th) ==
  CenteredText(DocFillColor(DocFont(DocFontSize(S, th.fontSize.h1 + 4),
                                    th.fonts.heading),
                            th.colors.heading),
               title, 100000, 8000)

\* the author line 40 points below the title, when there is an author
CoverAuthor(S, author, th) ==
  IF author # << >>
    THEN CenteredText(DocFont(DocFontSize(S, th.fontSize.h3 - 2),
                              th.fonts.italic),
                      <<"B", "y", ":", " ">> \o author, S.doc.y + 40000, 4000)
  ELSE S

\* the date 20 points below the author line, or 40 below the title
CoverDate(S, dateFormatted, author, th) ==
  CenteredText(DocFont(DocFontSize(S, th.fontSize.body), th.fonts.body),
               dateFormatted,
               S.doc.y + (IF author # << >> THEN 20000 ELSE 40000), 4000)

\* an end of the cover page that adds no page
CoverEnd_NoNewPage(S) ==
  DocText(Invoke(
            DocText(S, "createCoverPage", << >>, TRUE, S.doc.margins.left,
                    S.doc.y, Opts(FALSE, NoWidth, TRUE))),
          "createCoverPage", << >>, FALSE, NoPos, NoPos,
          Opts(FALSE, NoWidth, TRUE))

\* alignment reset at the left margin, doc.addPage(), alignment reset
CoverEnd(S) ==
  DocText(DocNewPage(Invoke(
            DocText(S, "createCoverPage", << >>, TRUE, S.doc.margins.left,
                    S.doc.y, Opts(FALSE, NoWidth, TRUE)))),
          "createCoverPage", << >>, FALSE, NoPos, NoPos,
          Opts(FALSE, NoWidth, TRUE))

\* createCoverPage(metadata, doc, theme): now is the current time
createCoverPage(S, metadata, userTheme, now) ==
  CoverEnd(
    CoverDate(
      CoverAuthor(
        CoverTitle(
          DocText([S EXCEPT !.doc.info =
                              CoverInfo(metadata, docDate(metadata, now))],
                  "createCoverPage", << >>, FALSE, NoPos, NoPos,
                  Opts(FALSE, NoWidth, TRUE)),
          CoverInfo(metadata, now).Title, createMergedTheme(userTheme)),
        MetadataOr(metadata, "author", << >>), createMergedTheme(userTheme)),
      toLocaleDateString(docDate(metadata, now)),
      MetadataOr(metadata, "author", << >>), createMergedTheme(userTheme)))

CoverPage ==
  /\ entry = "createCoverPage"
  /\ pc = "start"
  /\ Commit(createCoverPage(Surface, args.metadata, theme, args.now))
  /\ pc' = "done"
  /\ UNCHANGED callerVars
  /\ UNCHANGED <<entry, inlineText, md, docGiven, theme, lines, i,
                 inTableOfContents, inList, urlLastIndex, calls>>

\* renderer(doc, content, x, y, width, ...) for the renderer of that name
CallBlockRenderer(renderer, S, content, x, y, width, th, sp) ==
  CASE renderer = "renderHeading1" ->
         renderHeading1(S, content, x, y, width, th, sp.heading1)
    [] renderer = "renderHeading2" ->
         renderHeading2(S, content, x, y, width, th, sp.heading2)
    [] renderer = "renderHeading3" ->
         renderHeading3(S, content, x, y, width, th, sp.heading3)
    [] renderer = "renderBulletListItem" ->
         renderBulletListItem(S, content, x, y, width, FALSE, th, sp)
    [] renderer = "renderNumberedListItem" ->
         renderNumberedListItem(S, content, <<"1">>, x, y, width, FALSE, th,
                                sp)
    [] renderer = "renderTocListItem" ->
         renderTocListItem(S, content, <<"1", ".">>, x, y, width, th,
                           sp.tocItem)
    [] renderer = "renderBlockquote" ->
         renderBlockquote(S, content, x, y, width, th, sp.blockquote)
    [] renderer = "renderCodeBlock" ->
         renderCodeBlock(S, content, x, y, width, th, sp.codeBlock)
    [] renderer = "renderParagraph" ->
         renderParagraph(S, content, x, y, width, th, sp.paragraph)

\* a block renderer called by itself with a y argument that is doc.y moved
\* by args.dy
BlockRendererCall ==
  /\ entry = "blockRenderer"
  /\ pc = "start"
  /\ Commit(CallBlockRenderer(args.renderer, Surface, args.content,
                              doc.margins.left, doc.y + args.dy,
                              PageWidth - doc.margins.left - doc.margins.right,
                              mergedTheme, SPACING(mergedTheme)))
  /\ pc' = "done"
  /\ UNCHANGED callerVars
  /\ UNCHANGED <<entry, inlineText, md, docGiven, theme, lines, i,
                 inTableOfContents, inList, urlLastIndex, calls>>

\* renderBulletListItem called by itself
BulletItemCall ==
  /\ entry = "renderBulletListItem"
  /\ pc = "start"
  /\ Commit(renderBulletListItem(Surface, args.content, doc.margins.left,
                                 doc.y, PageWidth - doc.margins.left
                                          - doc.margins.right,
                                 args.hasUrl, mergedTheme,
                                 SPACING(mergedTheme)))
  /\ pc' = "done"
  /\ UNCHANGED callerVars
  /\ UNCHANGED <<entry, inlineText, md, docGiven, theme, lines, i,
                 inTableOfContents, inList, urlLastIndex, calls>>

\* ------------------------------------------------------------ extractMetadata
\* the end of the run of whitespace starting at p (p - 1 when there is none)
WsRunEnd(s, p) ==
  Max({q \in (p - 1)..Len(s) : \A j \in p..q : s[j] \in Whitespace})

\* \n<close>\s*\n matches right after position e
Closes(s, e, close) ==
  /\ e + 1 <= Len(s)
  /\ s[e + 1] = NL
  /\ HasAt(s, e + 2, close)
  /\ \E m \in (e + 2 + Len(close))..WsRunEnd(s, e + 2 + Len(close)) : s[m] = NL

\* where that match ends: \s* is greedy, so at the last newline of the run
ClosesAt(s, e, close) ==
  Max({m \in (e + 2 + Len(close))..WsRunEnd(s, e + 2 + Len(close)) :
         s[m] = NL})

\* the newlines that can end the opening line with the block closed later
OpeningEnds(s, open, close) ==
  {k \in (Len(open) + 1)..WsRunEnd(s, Len(open) + 1) :
     s[k] = NL /\ \E e \in k..Len(s) : Closes(s, e, close)}

\* /^<open>\s*\n([\s\S]*?)\n<close>\s*\n/ : the captured block and the end
\* of the match, the block being the shortest one
BlockMatch(s, open, close) ==
  IF StartsWith(s, open) /\ OpeningEnds(s, open, close) # {}
    THEN LET k == Max(OpeningEnds(s, open, close))
             e == Min({n \in k..Len(s) : Closes(s, n, close)})
         IN [found |-> TRUE, yaml |-> SubSeq(s, k + 1, e),
             end |-> ClosesAt(s, e, close)]
  ELSE [found |-> FALSE, yaml |-> << >>, end |-> 0]

\* content.match(yamlRegex) || content.match(codeBlockRegex)
FrontMatter(s) ==
  IF BlockMatch(s, YamlOpen, YamlOpen).found
    THEN BlockMatch(s, YamlOpen, YamlOpen)
  ELSE BlockMatch(s, CodeBlockOpen, Fence)

\* the metadata keys the service reads, as written in the front matter
MetadataKeys ==
  [title |-> <<"t", "i", "t", "l", "e">>,
   author |-> <<"a", "u", "t", "h", "o", "r">>,
   date |-> <<"d", "a", "t", "e">>]

\* the lines "key: value" of the block that set the key
KeyLines(yaml, key) ==
  SelectSeq(Split(yaml),
            LAMBDA l : /\ Includes(l, <<":">>)
                       /\ Trim(Take(l, IndexOf(l, <<":">>) - 1))
                            = MetadataKeys[key])

\* the object parsed from the block: the last line of a key sets its value
\* (values without commas)
ParseYaml(yaml) ==
  [key \in {k \in DOMAIN MetadataKeys : KeyLines(yaml, k) # << >>} |->
     Trim(Drop(KeyLines(yaml, key)[Len(KeyLines(yaml, key))],
               IndexOf(KeyLines(yaml, key)[Len(KeyLines(yaml, key))],
                       <<":">>)))]

\* extractMetadata(content)
extractMetadata(content) ==
  IF content = << >> THEN [metadata |-> NoKeys, cleanContent |-> << >>]
  ELSE IF ~FrontMatter(content).found
    THEN [metadata |-> NoKeys, cleanContent |-> content]
  ELSE [metadata |-> ParseYaml(FrontMatter(content).yaml),
        cleanContent |-> Drop(content, FrontMatter(content).end)]

\* ------------------------------------------------------------ the HTTP service
\* !value
Falsy(value) == value \in {JsUndefined, JsNull, << >>}

\* an apiKeyAuth that compares the keys without asking for one
Authorized_NoPresenceCheck(apiKey, secret) == apiKey = secret

\* apiKeyAuth lets through: !(!apiKey || apiKey !== process.env.API_KEY_SECRET)
Authorized(apiKey, secret) == ~Falsy(apiKey) /\ apiKey = secret

Responded(status, error, docCreated) ==
  [stage |-> "responded", status |-> status, error |-> error,
   docCreated |-> docCreated]

\* apiKeyAuth(req, res, next)
ApiKeyAuth ==
  /\ entry = "request"
  /\ http.stage = "received"
  /\ http' = IF Authorized(args.apiKey, args.secret)
               THEN [http EXCEPT !.stage = "handler"]
             ELSE Responded(401, "Unauthorized: Invalid API key", FALSE)
  /\ UNCHANGED <<args, firstRender>>
  /\ UNCHANGED storeVars
  /\ UNCHANGED <<entry, inlineText, md, docGiven, theme, pc, lines, i,
                 inTableOfContents, inList, urlLastIndex, doc, texts, docCalls,
                 currentPage, lastMoveDown, footerRuns, calls>>

\* new PDFDocument({margins, info: {Title, Author, ...}}) of generatePdf
NewDocument(metadata) ==
  [InitialDoc EXCEPT
     !.info.Title = MetadataOr(metadata, "title",
                               CoverInfo(NoKeys, ConstructionDate).Title),
     !.info.Author = MetadataOr(metadata, "author", << >>)]

\* new PDFDocument({autoFirstPage: false, margins}) of getPdfBuffer
BufferDocument ==
  [InitialDoc EXCEPT !.info = [Producer |-> "PDFKit", Creator |-> "PDFKit",
                               CreationDate |-> ConstructionDate]]

\* if (metadata.title || metadata.author) createCoverPage(metadata, doc, theme)
CoverIfTitled(S, metadata, userTheme, now) ==
  IF MetadataOr(metadata, "title", << >>) # << >>
       \/ MetadataOr(metadata, "author", << >>) # << >>
    THEN createCoverPage(S, metadata, userTheme, now)
  ELSE S

\* the document is handed to renderMarkdownToPdf with the clean content
CallRender(S, cleanContent) ==
  /\ Commit(S)
  /\ md' = [given |-> TRUE, str |-> cleanContent]
  /\ pc' = "start"
  /\ http' = [http EXCEPT !.stage = "rendering", !.docCreated = TRUE]

\* POST /generate-pdf: generatePdf(content, filename, options) up to the call
\* of renderMarkdownToPdf; a missing content throws into the handler's catch
GeneratePdf ==
  /\ entry = "request"
  /\ http.stage = "handler"
  /\ args.route = "/generate-pdf"
  /\ IF Falsy(args.content)
       THEN /\ http' = Responded(500, "Failed to generate PDF", FALSE)
            /\ UNCHANGED <<md, pc, doc, texts, docCalls, currentPage,
                           lastMoveDown, footerRuns>>
     ELSE CallRender(
            CoverIfTitled(
              DocLineGap([Surface EXCEPT
                            !.doc = NewDocument(
                                      extractMetadata(args.content).metadata)],
                         DEFAULT_THEME.spacing.lineGap),
              extractMetadata(args.content).metadata, theme, args.now),
            extractMetadata(args.content).cleanContent)
  /\ UNCHANGED <<args, firstRender>>
  /\ UNCHANGED storeVars
  /\ UNCHANGED <<entry, inlineText, docGiven, theme, lines, i,
                 inTableOfContents, inList, urlLastIndex, calls>>

\* POST /generate-pdf as first written: the content drawn as one text
GeneratePdfPlain ==
  /\ entry = "request"
  /\ http.stage = "handler"
  /\ args.route = "/generate-pdf (plain)"
  /\ IF Falsy(args.content)
       THEN /\ http' = Responded(400, "Content is required", FALSE)
            /\ UNCHANGED <<doc, texts, docCalls, currentPage, lastMoveDown, footerRuns>>
     ELSE /\ Commit(DocText(DocFontSize([Surface EXCEPT !.doc = InitialDoc],
                                         12),
                             "POST /generate-pdf", args.content, FALSE, NoPos,
                             NoPos, Opts(FALSE, NoWidth, TRUE)))
          /\ http' = Responded(200, "", TRUE)
  /\ UNCHANGED <<args, firstRender>>
  /\ UNCHANGED storeVars
  /\ UNCHANGED <<entry, inlineText, md, docGiven, theme, pc, lines, i,
                 inTableOfContents, inList, urlLastIndex, calls>>

\* POST /generate-pdf-buffer: validation, then getPdfBuffer(content, {},
\* options) up to the call of renderMarkdownToPdf
GeneratePdfBuffer ==
  /\ entry = "request"
  /\ http.stage = "handler"
  /\ args.route = "/generate-pdf-buffer"
  /\ IF Falsy(args.content)
       THEN /\ http' = Responded(400, "Content is required", FALSE)
            /\ UNCHANGED <<md, pc, doc, texts, docCalls, currentPage,
                           lastMoveDown, footerRuns>>
     ELSE CallRender(
            CoverIfTitled(
              Invoke([Surface EXCEPT !.doc = BufferDocument]),
              extractMetadata(args.content).metadata, NoKeys, args.now),
            extractMetadata(args.content).cleanContent)
  /\ UNCHANGED <<args, firstRender>>
  /\ UNCHANGED storeVars
  /\ UNCHANGED <<entry, inlineText, docGiven, theme, lines, i,
                 inTableOfContents, inList, urlLastIndex, calls>>

\* the handler after renderMarkdownToPdf: the PDF is sent, or the catch
\* answers 500
Respond ==
  /\ entry = "request"
  /\ http.stage = "rendering"
  /\ pc \in {"done", "threw"}
  /\ http' = IF pc = "done" THEN Responded(200, "", TRUE)
             ELSE IF args.route = "/generate-pdf-buffer"
               THEN Responded(500, "Failed to generate PDF buffer", TRUE)
             ELSE Responded(500, "Failed to generate PDF", TRUE)
  /\ pc' = "idle"
  /\ UNCHANGED <<args, firstRender>>
  /\ UNCHANGED storeVars
  /\ UNCHANGED <<entry, inlineText, md, docGiven, theme, lines, i,
                 inTableOfContents, inList, urlLastIndex, doc, texts, docCalls,
                 currentPage, lastMoveDown, footerRuns, calls>>

\* a caller that has rendered one document renders the same markdown, with
\* the same theme, on a second document constructed like the first; the
\* locals of the call that returned are gone
RenderAgain ==
  /\ entry = "renderMarkdownToPdf"
  /\ pc = "done"
  /\ firstRender.again
  /\ ~firstRender.ran
  /\ firstRender' = [again |-> TRUE, ran |-> TRUE, texts |-> texts,
                     doc |-> doc, lastMoveDown |-> lastMoveDown]
  /\ doc' = InitialDoc
  /\ texts' = << >>
  /\ docCalls' = 0
  /\ currentPage' = 0
  /\ lastMoveDown' = 0
  /\ footerRuns' = << >>
  /\ calls' = << >>
  /\ lines' = << >>
  /\ i' = 0
  /\ inTableOfContents' = FALSE
  /\ inList' = FALSE
  /\ pc' = "start"
  /\ UNCHANGED <<args, http>>
  /\ UNCHANGED storeVars
  /\ UNCHANGED <<entry, inlineText, md, docGiven, theme, urlLastIndex>>

\* ------------------------------------------------------------------ pdfStore
\* storePdf(pdfBuffer, metadata); the call takes less than a millisecond
StorePdf ==
  /\ entry = "pdfStore"
  /\ storeLog.stores < MaxStores
  /\ \E pdfBuffer \in Buffers, metadata \in StoreMetadata,
        random \in RandomStrings :
       /\ pdfStore' = storePdf(pdfStore, pdfBuffer, metadata,
                               StoreId(dateNow, random), dateNow)
       /\ storeLog' =
            [storeLog EXCEPT
               !.stored = MapSet(@, StoreId(dateNow, random),
                                 StoredEntry(pdfBuffer, metadata, dateNow)),
               !.stores = @ + 1,
               !.op = "storePdf",
               !.id = StoreId(dateNow, random),
               !.result = StoreId(dateNow, random),
               !.at = dateNow]
  /\ UNCHANGED <<args, http, firstRender, dateNow>>
  /\ UNCHANGED <<entry, inlineText, md, docGiven, theme, pc, lines, i,
                 inTableOfContents, inList, urlLastIndex, doc, texts, docCalls,
                 currentPage, lastMoveDown, footerRuns, calls>>

\* getPdf(id) for an id that was stored at some time, or never
GetPdf ==
  /\ entry = "pdfStore"
  /\ \E id \in MapKeys(storeLog.stored) \cup {NeverStored} :
       /\ pdfStore' = getPdf(pdfStore, id, dateNow).store
       /\ storeLog' = [storeLog EXCEPT
                         !.op = "getPdf",
                         !.id = id,
                         !.result = getPdf(pdfStore, id, dateNow).result,
                         !.at = dateNow]
  /\ UNCHANGED <<args, http, firstRender, dateNow>>
  /\ UNCHANGED <<entry, inlineText, md, docGiven, theme, pc, lines, i,
                 inTableOfContents, inList, urlLastIndex, doc, texts, docCalls,
                 currentPage, lastMoveDown, footerRuns, calls>>

\* getPdf('all'), the listing of the dashboard
GetAllPdfs ==
  /\ entry = "pdfStore"
  /\ pdfStore' = getPdf(pdfStore, AllPdfs, dateNow).store
  /\ storeLog' = [storeLog EXCEPT
                    !.op = "getPdf all",
                    !.id = NeverStored,
                    !.result = getPdf(pdfStore, AllPdfs, dateNow).result,
                    !.at = dateNow]
  /\ UNCHANGED <<args, http, firstRender, dateNow>>
  /\ UNCHANGED <<entry, inlineText, md, docGiven, theme, pc, lines, i,
                 inTableOfContents, inList, urlLastIndex, doc, texts, docCalls,
                 currentPage, lastMoveDown, footerRuns, calls>>

GetStoreSize ==
  /\ entry = "pdfStore"
  /\ pdfStore' = getStoreSize(pdfStore, dateNow).store
  /\ storeLog' = [storeLog EXCEPT
                    !.op = "getStoreSize",
                    !.id = NeverStored,
                    !.result = getStoreSize(pdfStore, dateNow).result,
                    !.at = dateNow]
  /\ UNCHANGED <<args, http, firstRender, dateNow>>
  /\ UNCHANGED <<entry, inlineText, md, docGiven, theme, pc, lines, i,
                 inTableOfContents, inList, urlLastIndex, doc, texts, docCalls,
                 currentPage, lastMoveDown, footerRuns, calls>>

\* time passes between two calls
ClockAdvance ==
  /\ entry = "pdfStore"
  /\ storeLog.ticks < MaxTicks
  /\ \E step \in ClockSteps : dateNow' = dateNow + step
  /\ storeLog' = [storeLog EXCEPT !.ticks = @ + 1, !.op = "none"]
  /\ UNCHANGED <<args, http, firstRender, pdfStore>>
  /\ UNCHANGED <<entry, inlineText, md, docGiven, theme, pc, lines, i,
                 inTableOfContents, inList, urlLastIndex, doc, texts, docCalls,
                 currentPage, lastMoveDown, footerRuns, calls>>

Next ==
  \/ StorePdf
  \/ GetPdf
  \/ GetAllPdfs
  \/ GetStoreSize
  \/ ClockAdvance
  \/ InlineFormat
  \/ BlockRendererCall
  \/ RenderAgain
  \/ ApiKeyAuth
  \/ GeneratePdf
  \/ GeneratePdfPlain
  \/ GeneratePdfBuffer
  \/ Respond
  \/ BulletItemCall
  \/ CoverPage
  \/ VisualizeMargins
  \/ MonitorPageBreaks
  \/ LogPosition
  \/ Reject
  \/ Begin
  \/ EmptyLine
  \/ Heading1
  \/ Heading2
  \/ Heading3
  \/ TocItem
  \/ BulletItem
  \/ NumberedItem
  \/ Blockquote
  \/ HorizontalRule
  \/ CodeBlock
  \/ Anchor
  \/ Paragraph
  \/ Return

Spec == Init /\ [][Next]_vars

TypeOK ==
  /\ pc \in {"idle", "start", "loop", "done", "threw"}
  /\ http.stage \in {"none", "received", "handler", "rendering", "responded"}
  /\ http.status \in {0, 200, 400, 401, 500}
  /\ i \in 0..(Len(lines) + 2)
  /\ Len(calls) <= Len(lines)

\* ==================================================================== claims
ListRenderers == {"renderBulletListItem", "renderNumberedListItem"}
ItemRenderers == ListRenderers \cup {"renderTocListItem"}

Last(q) == q[Len(q)]

ContainsUrl(s) == \E p \in 1..Len(s) : UrlMatchEnd(s, p) # 0

\* the text calls a renderer call issued itself (a page footer drawn while it
\* ran is not its own)
OwnTexts(c) == SelectSeq(c.drawn, LAMBDA t : t.by = c.renderer)

\* C1: for every bullet or numbered item, whatever precedes it, the spacing
\* moved down after the item is SPACING.listWithUrl when its content contains
\* an http(s) URL and SPACING.list when it does not.
C1_UrlSpacing ==
  \A k \in 1..Len(calls) :
    calls[k].renderer \in ListRenderers =>
      calls[k].moved = IF ContainsUrl(calls[k].content)
                         THEN SPACING(mergedTheme).listWithUrl
                         ELSE SPACING(mergedTheme).list

\* the string C2 expects for the item on trimmed line t: marker, one space,
\* content
ExpectedItemString(t) ==
  IF NumberedMatch(t)
    THEN Take(t, LeadingDigits(t)) \o <<".", " ">>
           \o Drop(t, LeadingDigits(t) + 2)
    ELSE <<Bullet, " ">> \o Drop(t, 2)

\* C2: the single string drawn for a list or TOC item is the marker, exactly
\* one space, then the content.
C2_ItemString ==
  \A k \in 1..Len(calls) :
    calls[k].renderer \in ItemRenderers =>
      \A n \in 1..Len(OwnTexts(calls[k])) :
        OwnTexts(calls[k])[n].str =
          ExpectedItemString(Trim(lines[calls[k].line]))

C4_FailFast ==
  (/\ entry = "renderMarkdownToPdf"
   /\ pc # "start"
   /\ (~md.given \/ md.str = << >> \/ ~docGiven))
    => /\ pc = "threw"
       /\ docCalls = 0
       /\ texts = << >>
       /\ doc \in CalledOnDocs

C4_Witness ==
  /\ pc = "threw"
  /\ md.given
  /\ md.str = << >>
  /\ docGiven

\* ------------------------------------------------------------ TOC mode
HasTocPhrase(s) == Includes(ToLowerCase(s), TocPhrase)

IsTocHeading(t) == StartsWith(t, <<"#", " ">>) /\ HasTocPhrase(t)

\* the loop has just handled line i
LineStep == pc = "loop" /\ i <= Len(lines) /\ i' > i

\* C5 as stated: TOC mode is off when the loop starts and is turned on only
\* by a level-1 heading containing 'table of contents', so a numbered line
\* that precedes every such heading is rendered as a NumberedItem.
C5_TocOnlyByHeading ==
  /\ (pc = "loop" /\ i = 1) => ~inTableOfContents
  /\ \A k \in 1..Len(calls) :
       (/\ NumberedMatch(Trim(lines[calls[k].line]))
        /\ \A n \in 1..(calls[k].line - 1) : ~IsTocHeading(Trim(lines[n])))
         => calls[k].renderer = "renderNumberedListItem"

\* C5 amended: TOC mode is on when the loop starts exactly when one of the
\* first 20 lines contains 'table of contents' (case-insensitive); after
\* that it is turned on only by processing a level-1 heading containing it;
\* a numbered line processed while TOC mode is off is rendered as a
\* NumberedItem, never as a TocItem.
C5_TocByPrescanOrHeading ==
  [][/\ (pc = "start" /\ pc' = "loop") =>
          (inTableOfContents' <=>
             \E n \in 1..Len(lines') : n <= 20 /\ HasTocPhrase(lines'[n]))
     /\ (LineStep /\ ~inTableOfContents /\ inTableOfContents') =>
          IsTocHeading(trimmedLine)
     /\ (LineStep /\ ~inTableOfContents /\ NumberedMatch(trimmedLine)) =>
          /\ Len(calls') = Len(calls) + 1
          /\ Last(calls').renderer = "renderNumberedListItem"]_vars

\* a mention on line 20, the last line of the look-ahead, and no TOC heading
\* anywhere: the numbered line 21 is drawn as a TocItem
C5_Witness ==
  /\ pc = "done"
  /\ Len(lines) > 20
  /\ HasTocPhrase(lines[20])
  /\ \E k \in 1..Len(calls) :
       /\ calls[k].renderer = "renderTocListItem"
       /\ calls[k].line = 21
       /\ \A n \in 1..Len(lines) : ~IsTocHeading(Trim(lines[n]))

\* C6: once a level-1 heading containing 'table of contents' has been handled
\* and has turned TOC mode on, no numbered or bulleted line changes the mode,
\* the first horizontal-rule line handled after it turns the mode off, and
\* numbered lines after that rule are rendered as NumberedItem.
C6_TocUntilRule ==
  [][/\ (LineStep /\ IsTocHeading(trimmedLine)) => inTableOfContents'
     /\ (/\ LineStep
         /\ NumberedMatch(trimmedLine) \/ IsBulletLine(trimmedLine))
          => (inTableOfContents' <=> inTableOfContents)
     /\ (LineStep /\ inTableOfContents /\ RuleMatch(trimmedLine))
          => ~inTableOfContents'
     /\ (/\ LineStep
         /\ NumberedMatch(trimmedLine)
         /\ \E a, b \in 1..Len(calls) :
              LET h == calls[a].line
                  r == calls[b].line
              IN /\ h < r
                 /\ calls[a].renderer = "renderHeading1"
                 /\ IsTocHeading(Trim(lines[h]))
                 /\ calls[b].renderer = "renderHorizontalRule"
                 /\ \A n \in (h + 1)..(r - 1) :
                      \/ NumberedMatch(Trim(lines[n]))
                      \/ IsBulletLine(Trim(lines[n]))
                 /\ \A n \in (r + 1)..(i - 1) :
                      ~StartsWith(Trim(lines[n]), <<"#", " ">>))
          => Last(calls').renderer = "renderNumberedListItem"]_vars

\* heading, TOC item, rule, then a numbered line drawn as a NumberedItem
C6_Witness ==
  /\ pc = "done"
  /\ Len(calls) = 4
  /\ calls[1].renderer = "renderHeading1"
  /\ HasTocPhrase(calls[1].content)
  /\ calls[2].renderer = "renderTocListItem"
  /\ calls[3].renderer = "renderHorizontalRule"
  /\ calls[4].renderer = "renderNumberedListItem"

\* ------------------------------------------------------- classification
\* the rules of C7, in the order the claim lists them
RuleHolds(n, t, toc) ==
  CASE n = 1 -> StartsWith(t, <<"#", " ">>)
    [] n = 2 -> StartsWith(t, <<"#", "#", " ">>)
    [] n = 3 -> StartsWith(t, <<"#", "#", "#", " ">>)
    [] n = 4 -> toc /\ (\/ NumberedMatch(t)
                        \/ /\ t[1] \in {"-", "*"}
                           /\ Len(t) >= 2
                           /\ t[2] = " "
                           /\ BracketTokenMatch(t))
    [] n = 5 -> Len(t) >= 2 /\ t[1] \in {"-", "*"} /\ t[2] = " "
    [] n = 6 -> NumberedMatch(t)
    [] n = 7 -> StartsWith(t, <<">", " ">>)
    [] n = 8 -> RuleMatch(t)
    [] n = 9 -> StartsWith(t, Fence)
    [] n = 10 -> StartsWith(t, AnchorOpen) /\ EndsWith(t, AnchorClose)
    [] OTHER -> TRUE

RuleRenderer ==
  <<"renderHeading1", "renderHeading2", "renderHeading3", "renderTocListItem",
    "renderBulletListItem", "renderNumberedListItem", "renderBlockquote",
    "renderHorizontalRule", "renderCodeBlock", "skip", "renderParagraph">>

FirstRule(t, toc) == Min({n \in 1..11 : RuleHolds(n, t, toc)})

\* C7: every non-blank trimmed line outside a fenced block is dispatched to
\* the renderer of the first matching rule, in the order Heading1, Heading2,
\* Heading3, TocItem (TOC mode), BulletItem, NumberedItem, Blockquote,
\* HorizontalRule, CodeBlock, anchor Skip, Paragraph.
C7_FirstMatchWins ==
  [][(LineStep /\ trimmedLine # << >>) =>
       LET r == RuleRenderer[FirstRule(trimmedLine, inTableOfContents)]
       IN IF r = "skip"
            THEN calls' = calls
            ELSE /\ Len(calls') = Len(calls) + 1
                 /\ Last(calls').renderer = r
                 /\ Last(calls').line = i]_vars

\* in TOC mode a bulleted line with a bracketed token went to the TocItem
\* renderer, although the bullet rule matches it too
C7_Witness ==
  /\ pc = "done"
  /\ \E j \in 1..Len(calls) :
       /\ calls[j].renderer = "renderTocListItem"
       /\ StartsWith(Trim(lines[calls[j].line]), <<"*", " ">>)
       /\ calls[j].toc

\* ------------------------------------------------------------ code blocks
IsFenceLine(l) == StartsWith(Trim(l), Fence)

\* line e closes the fenced block opened on line a
ClosesFence(a, e) ==
  /\ e \in (a + 1)..Len(lines)
  /\ IsFenceLine(lines[e])
  /\ \A n \in (a + 1)..(e - 1) : ~IsFenceLine(lines[n])

FirstFence(a) ==
  /\ a \in 1..Len(lines)
  /\ IsFenceLine(lines[a])
  /\ \A n \in 1..(a - 1) : ~IsFenceLine(lines[n])

CodeCalls(a) ==
  {k \in 1..Len(calls) :
     calls[k].renderer = "renderCodeBlock" /\ calls[k].line = a}

\* C8: an opening fence, k code lines and a closing fence make exactly one
\* renderCodeBlock call whose content is exactly those k lines, untrimmed and
\* joined by newlines; neither fence is rendered and none of the k lines
\* goes to any other renderer.
C8_FencedBlock ==
  \A a, e \in 1..Len(lines) :
    ClosesFence(a, e) =>
      /\ \A k \in CodeCalls(a) :
           /\ calls[k].content = Join(SubSeq(lines, a + 1, e - 1))
           /\ Len(OwnTexts(calls[k])) = 1
           /\ OwnTexts(calls[k])[1].str = Join(SubSeq(lines, a + 1, e - 1))
           /\ \A m \in 1..Len(calls) :
                m # k => calls[m].line \notin a..e
      /\ (FirstFence(a) /\ (pc = "done" \/ i > a)) =>
           Cardinality(CodeCalls(a)) = 1

\* a closed block whose one code line would be a heading outside the fence
C8_Witness ==
  /\ pc = "done"
  /\ \E a, e \in 1..Len(lines) :
       /\ ClosesFence(a, e)
       /\ e = a + 2
       /\ lines[a + 1] = L_IndentedH1
       /\ CodeCalls(a) # {}
       /\ e < Len(lines)

\* C9: an opening fence with no closing fence does not throw: every
\* remaining line becomes the content of one code block and the render
\* completes.
C9_UnterminatedFence ==
  \A a \in 1..Len(lines) :
    \A k \in CodeCalls(a) :
      (\A n \in (a + 1)..Len(lines) : ~IsFenceLine(lines[n])) =>
        /\ calls[k].content = Join(SubSeq(lines, a + 1, Len(lines)))
        /\ k = Len(calls)
        /\ pc \in {"loop", "done"}
        /\ i > Len(lines)
        /\ ENABLED Return \/ pc = "done"

C9_Witness ==
  /\ pc = "done"
  /\ \E a \in 1..Len(lines) :
       /\ CodeCalls(a) # {}
       /\ a + 2 <= Len(lines)
       /\ \A n \in (a + 1)..Len(lines) : ~IsFenceLine(lines[n])

\* -------------------------------------------------------- continued chains
\* C10: after processInlineFormatting returns, and after every block rendered
\* by renderMarkdownToPdf, no continued-text chain is left open: whenever a
\* text call flagged continued was issued, the last text call issued is not
\* flagged continued.
C10_ChainClosed ==
  (\E k \in 1..Len(texts) : texts[k].continued) => ~Last(texts).continued

\* a chain was opened for inline code and nothing but white space remained
C10_Witness ==
  /\ entry = "processInlineFormatting"
  /\ pc = "done"
  /\ inlineText = T_CodeAndSpace
  /\ \E k \in 1..Len(texts) : texts[k].continued

\* ------------------------------------------------------------ styled runs
\* the text calls of the formatter that draw something, as <<text, font>>
StyledRuns ==
  LET drawn == SelectSeq(texts, LAMBDA t : t.by = PIF /\ t.str # << >>)
  IN [k \in 1..Len(drawn) |-> <<drawn[k].str, drawn[k].font>>]

\* C11: for 'This is **bold** and _italic_ and `code`.' the formatter emits
\* the runs in source order: plain 'This is ', bold 'bold', plain ' and ',
\* italic 'italic', plain ' and ', code 'code', plain '.', all in one chain.
C11_SourceOrder ==
  (entry = PIF /\ pc = "done" /\ inlineText = T_Example) =>
    /\ StyledRuns =
         << <<<<"T", "h", "i", "s", " ", "i", "s", " ">>, "Helvetica">>,
            <<<<"b", "o", "l", "d">>, "Helvetica-Bold">>,
            <<<<" ", "a", "n", "d", " ">>, "Helvetica">>,
            <<<<"i", "t", "a", "l", "i", "c">>, "Helvetica-Oblique">>,
            <<<<" ", "a", "n", "d", " ">>, "Helvetica">>,
            <<<<"c", "o", "d", "e">>, "Courier">>,
            <<<<".">>, "Helvetica">> >>
    /\ \A k \in 1..(Len(texts) - 1) : texts[k].continued
    /\ ~Last(texts).continued

\* C12: a paragraph line is rendered through the inline formatter, so a
\* paragraph containing **bold** produces a separately styled bold run and no
\* text call that contains the raw delimiters.
C12_ParagraphInline ==
  \A k \in 1..Len(calls) :
    (/\ calls[k].renderer = "renderParagraph"
     /\ BoldPass(calls[k].content).captured # << >>)
      => /\ \A n \in 1..Len(calls[k].drawn) :
              ~Includes(calls[k].drawn[n].str, <<"*", "*">>)
         /\ \E n \in 1..Len(calls[k].drawn) :
              /\ calls[k].drawn[n].font = mergedTheme.fonts.bold
              /\ calls[k].drawn[n].str = BoldPass(calls[k].content).captured[1]

\* ----------------------------------------------------------- page footers
Footers == SelectSeq(texts, LAMBDA t : t.by = "addPageFooter")

\* C13: during a render the footer 'Page 1' is drawn before any line is
\* processed, and every page added thereafter raises the page counter by one
\* and draws one footer with the new number: the footers carry 1, 2, 3, ...
\* in page order, none skipped or repeated.
C13_FooterNumbering ==
  (entry = "renderMarkdownToPdf" /\ pc \in {"loop", "done"}) =>
    /\ texts[1].by = "addPageFooter"
    /\ Len(Footers) = currentPage
    /\ currentPage = doc.pages
    /\ \A k \in 1..Len(Footers) :
         /\ Footers[k].str = <<"P", "a", "g", "e", " ">> \o NumToStr(k)
         /\ Footers[k].page = k

\* a render that ran over three pages
C13_Witness ==
  /\ entry = "renderMarkdownToPdf"
  /\ pc = "done"
  /\ doc.pages >= 3
  /\ Len(Footers) >= 3

\* ------------------------------------------------------------ merged theme
\* C14: for every partial user theme, the merged theme passed to the
\* renderers has a defined value for every font, font-size and colour key of
\* the default theme, a key the user did not set taking the default value.
C14_MergedThemeDefined ==
  /\ \A c \in {"fonts", "fontSize", "colors"} :
       \A k \in DOMAIN DEFAULT_THEME[c] :
         /\ k \in DOMAIN mergedTheme[c]
         /\ k \notin DOMAIN Category(theme, c) =>
              mergedTheme[c][k] = DEFAULT_THEME[c][k]
  /\ \A c \in {"fonts", "colors"} :
       \A k \in DOMAIN DEFAULT_THEME[c] : mergedTheme[c][k] # UndefinedValue

\* C15: a diagnostic call (visualizeMargins, monitorPageBreaks, logPosition)
\* returns with the document's cursor (x, y), font, font size and fill colour
\* as they were before the call.
C15_DiagnosticsNoEffect ==
  [][(entry \in Diagnostics /\ pc = "start" /\ pc' = "done")
       => /\ doc'.x = doc.x
          /\ doc'.y = doc.y
          /\ doc'.font = doc.font
          /\ doc'.fontSize = doc.fontSize
          /\ doc'.fillColor = doc.fillColor]_vars

\* the texts the cover page draws, empty alignment resets left out
CoverTexts ==
  SelectSeq(texts, LAMBDA t : t.by = "createCoverPage" /\ t.str # << >>)

GivenDate == MetadataOr(args.metadata, "date", << >>)

\* C16: createCoverPage returns normally; when metadata.date is missing or
\* does not parse to a valid date the cover shows the current time and
\* doc.info.CreationDate is the current time, and a date that parses validly
\* is shown and stored as given.
C16_CoverDate ==
  (entry = "createCoverPage" /\ pc # "start") =>
    /\ pc = "done"
    /\ (GivenDate = << >> \/ ~ParseDate(GivenDate).valid) =>
         /\ doc.info.CreationDate = args.now
         /\ Last(CoverTexts).str = toLocaleDateString(args.now)
    /\ (GivenDate # << >> /\ ParseDate(GivenDate).valid) =>
         /\ doc.info.CreationDate = ParseDate(GivenDate)
         /\ Last(CoverTexts).str = toLocaleDateString(ParseDate(GivenDate))
         /\ doc.info.CreationDate # args.now

C16_Witness ==
  /\ entry = "createCoverPage"
  /\ pc = "done"
  /\ GivenDate = D_NotADate
  /\ doc.info.CreationDate = Now
  /\ Last(CoverTexts).str = <<"1", "1", "/", "4", "/", "2", "0", "2", "6">>

\* C17: a block renderer given undefined or null content returns normally and
\* draws the item with the safe default (empty) string in place of the
\* content.
C17_NonStringContent ==
  (entry = "renderBulletListItem" /\ pc # "start"
     /\ args.content \in {JsUndefined, JsNull}) =>
    /\ pc = "done"
    /\ \A k \in 1..Len(texts) :
         texts[k].by = "renderBulletListItem" => texts[k].str = <<Bullet, " ">>

\* the request carries an X-API-Key header equal to API_KEY_SECRET
KeyPresentAndEqual ==
  /\ args.apiKey \notin {JsUndefined, << >>}
  /\ args.secret # JsUndefined
  /\ args.apiKey = args.secret

C19_ContentRequired ==
  (/\ entry = "request"
   /\ args.route = "/generate-pdf"
   /\ KeyPresentAndEqual
   /\ args.content \in {JsUndefined, << >>}
   /\ http.stage = "responded")
    => /\ http.status = 400
       /\ http.error = "Content is required"
       /\ ~http.docCreated

C21_FooterInvisible ==
  \A k \in 1..Len(footerRuns) : footerRuns[k].after = footerRuns[k].before

\* C22: an iteration that renders the block of a line and leaves further
\* lines to process ends with the realignment call: an empty, non-continued
\* text call at (left margin, current y), for every block kind.
C22_Realignment ==
  [][(InLoop /\ Len(calls') = Len(calls) + 1 /\ i' <= Len(lines))
       => /\ texts' # << >>
          /\ texts'[Len(texts')].by = "renderMarkdownToPdf"
          /\ texts'[Len(texts')].str = << >>
          /\ texts'[Len(texts')].hasPos
          /\ texts'[Len(texts')].x = doc.margins.left
          /\ ~texts'[Len(texts')].continued]_vars

\* C23: a block renderer called with any y argument draws its text at the y
\* the document had when the renderer was called.
C23_DrawsAtLiveY ==
  (entry = "blockRenderer" /\ pc = "done") =>
    \A k \in 1..Len(texts) :
      texts[k].by = args.renderer => texts[k].y = args.startY

\* C24: in every chain of text calls processInlineFormatting issues, the
\* first call passes explicit (x, y) coordinates and no later call of the
\* chain does, the non-continued call that closes it included.
C24_OnlyFirstAnchors ==
  entry = "processInlineFormatting" =>
    \A k \in 1..Len(texts) :
      texts[k].hasPos <=> (k = 1 \/ ~texts[k - 1].continued)

\* a chain of a plain segment, a link and a plain segment, then its closing
\* call
C24_Witness ==
  /\ entry = "processInlineFormatting"
  /\ pc = "done"
  /\ inlineText = T_UrlMid
  /\ Len(texts) = 4
  /\ texts[1].hasPos
  /\ texts[3].continued
  /\ ~texts[4].continued

\* C25: processInlineFormatting called with empty text issues no text call
\* and leaves the document's cursor, font, font size and fill colour
\* unchanged.
C25_EmptyTextNoOp ==
  [][(entry = "processInlineFormatting" /\ pc = "start"
        /\ inlineText = << >>)
       => /\ texts' = texts
          /\ FlowState(doc') = FlowState(doc)]_vars

\* C26: with non-negative spacing values, an iteration of renderMarkdownToPdf
\* that calls a block renderer leaves the document's y at or below the y it
\* found, unless a page was started during the call, and then y is at or
\* below the top margin of the new page.
C26_MonotonicY ==
  [][(InLoop /\ Len(calls') = Len(calls) + 1)
       => \/ doc'.pages = doc.pages /\ doc'.y >= doc.y
          \/ doc'.pages > doc.pages /\ doc'.y >= doc.margins.top]_vars

\* a render in which a block started a page and ended above where it began
C26_Witness ==
  /\ Rendering
  /\ pc = "done"
  /\ doc.pages > 1
  /\ \E k \in 1..Len(calls) : calls[k].atY > doc.y
  /\ \E k \in 1..Len(calls) : calls[k].moved > 0

\* C27: whatever storePdf, getPdf and getStoreSize calls and clock advances
\* came before, getPdf(id) returns no entry whose expiry is earlier than the
\* current time: for an id stored more than 30 minutes ago it returns null
\* and the entry is gone from the store, for an id never stored it returns
\* null, and otherwise it returns the buffer and the metadata that were stored
\* under the id.
C27_NoExpiredEntry ==
  (entry = "pdfStore" /\ storeLog.op = "getPdf")
    => /\ storeLog.result # NullResult => ~(storeLog.result.expires < storeLog.at)
       /\ storeLog.id \notin MapKeys(storeLog.stored)
            => storeLog.result = NullResult
       /\ storeLog.id \in MapKeys(storeLog.stored)
            => IF storeLog.at > MapGet(storeLog.stored, storeLog.id).created + DEFAULT_TTL
                 THEN /\ storeLog.result = NullResult
                      /\ storeLog.id \notin MapKeys(pdfStore)
               ELSE /\ storeLog.result # NullResult
                    /\ storeLog.result.pdf = MapGet(storeLog.stored, storeLog.id).pdf
                    /\ storeLog.result.metadata
                         = MapGet(storeLog.stored, storeLog.id).metadata

\* a lookup, more than 30 minutes after the id was stored, that found the
\* entry still in the store and removed it
C27_Witness ==
  /\ entry = "pdfStore"
  /\ storeLog.op = "getPdf"
  /\ storeLog.id \in MapKeys(storeLog.stored)
  /\ storeLog.at > MapGet(storeLog.stored, storeLog.id).created + DEFAULT_TTL
  /\ storeLog.result = NullResult
  /\ storeLog.stores = 1
  /\ MapKeys(pdfStore) = {}

\* ------------------------------------------------------------- termination
\* the lines the iteration at line a uses up: the line itself, or for an
\* opening fence every line up to and including its closing fence, or up to
\* the last line when no fence closes it
LinesUsed(a) ==
  IF ~IsFenceLine(lines[a]) THEN {a}
  ELSE IF \E e \in 1..Len(lines) : ClosesFence(a, e)
    THEN a..(CHOOSE e \in 1..Len(lines) : ClosesFence(a, e))
  ELSE a..Len(lines)

\* C28: renderMarkdownToPdf terminates and uses each line exactly once: every
\* iteration moves the loop index up, to the line after the one it handled or
\* after the closing fence of the code block it rendered, and makes at most
\* one renderer call; no line inside a code block, fences included, is the
\* line of another call, and no line is the line of two calls. The index
\* is bounded (an unclosed code block leaves it one past the end), so the
\* loop ends after at most Len(lines) iterations.
C28_EachLineOnce ==
  /\ [][InLoop => /\ i' > Max(LinesUsed(i))
                  /\ i' <= Len(lines) => i' = Max(LinesUsed(i)) + 1
                  /\ i' > i
                  /\ lines' = lines
                  /\ Len(calls') <= Len(calls) + 1]_vars
  /\ [](\A k, m \in 1..Len(calls) :
          k < m => \A n \in LinesUsed(calls[k].line) : calls[m].line > n)
  /\ [](Rendering /\ pc \in {"loop", "done"} => i \in 1..(Len(lines) + 2))
  /\ [](Rendering /\ pc = "done" => i > Len(lines))

\* a finished render that went through a closed code block and a line after it
C28_Witness ==
  /\ Rendering
  /\ pc = "done"
  /\ \E a, e \in 1..Len(lines) :
       /\ ClosesFence(a, e)
       /\ e > a + 1
       /\ CodeCalls(a) # {}
       /\ \E k \in 1..Len(calls) : calls[k].line = e + 1

\* ----------------------------------------------------------------- doc.info
\* the request's metadata has a title or an author, so its cover page is drawn
CoverDrawn ==
  \/ MetadataOr(extractMetadata(args.content).metadata, "title", << >>) # << >>
  \/ MetadataOr(extractMetadata(args.content).metadata, "author", << >>) # << >>

\* C29: when doc.info exists, renderMarkdownToPdf replaces CreationDate by the
\* time of the render and leaves every other key of doc.info as it was; so
\* in a request that drew a cover page before the render, CreationDate is
\* the render time and not the date of the metadata, and the Title, Author,
\* Subject and Keywords are those the cover page set.
C29_OnlyCreationDate ==
  /\ [][(Rendering /\ pc = "start" /\ pc' = "loop" /\ doc.info # NoKeys)
         => doc'.info = [doc.info EXCEPT !.CreationDate = creationDate]]_vars
  /\ [](/\ entry = "request"
        /\ http.stage = "rendering"
        /\ pc \in {"loop", "done"}
        /\ CoverDrawn
        => /\ doc.info.CreationDate = creationDate
           /\ doc.info.CreationDate
                # docDate(extractMetadata(args.content).metadata, args.now)
           /\ doc.info.Title
                = CoverInfo(extractMetadata(args.content).metadata,
                            args.now).Title
           /\ doc.info.Author
                = CoverInfo(extractMetadata(args.content).metadata,
                            args.now).Author
           /\ doc.info.Subject = "Markdown Rendered PDF"
           /\ doc.info.Keywords = "")

\* a request whose front matter has an author and a valid date, rendered
\* after its cover page
C29_Witness ==
  /\ entry = "request"
  /\ http.stage = "rendering"
  /\ pc = "done"
  /\ args.content = B_Dated
  /\ doc.pages > 1
  /\ doc.info.Author = <<"A">>
  /\ doc.info.CreationDate = creationDate
  /\ docDate(extractMetadata(args.content).metadata, args.now)
       = ParseDate(D_Valid)

\* ------------------------------------------------------ cover page and footer
FooterTexts == SelectSeq(texts, LAMBDA t : t.by = "addPageFooter")

\* C30: in a request that draws a cover page before the render, the page the
\* cover page adds is added before the footer listener is registered: when
\* the render starts the document has exactly one page more than the cover,
\* no footer has been drawn and no footer handler has run; after it the
\* cover page (page 1) has no footer and the first footer drawn reads
\* 'Page 1' on the first content page (page 2).
C30_CoverBeforeListener ==
  (entry = "request" /\ http.stage = "rendering" /\ CoverDrawn)
    => /\ pc = "start"
            => /\ doc.pages = 2
               /\ FooterTexts = << >>
               /\ footerRuns = << >>
               /\ \A k \in 1..Len(doc.listeners) :
                    doc.listeners[k].kind # "footer"
       /\ pc \in {"loop", "done"}
            => /\ \A k \in 1..Len(FooterTexts) : FooterTexts[k].page # 1
               /\ FooterTexts # << >>
               /\ FooterTexts[1].str = <<"P", "a", "g", "e", " ", "1">>
               /\ FooterTexts[1].page = 2
               /\ \E k \in 1..Len(doc.listeners) :
                    doc.listeners[k].kind = "footer"

\* a rendered request whose cover page holds the title and whose second page
\* holds the footer
C30_Witness ==
  /\ entry = "request"
  /\ http.stage = "rendering"
  /\ pc = "done"
  /\ args.content = B_Titled
  /\ \E k \in 1..Len(texts) :
       texts[k].by = "createCoverPage" /\ texts[k].page = 1
                                      /\ texts[k].str = <<"T">>
  /\ Len(FooterTexts) = 1
  /\ FooterTexts[1].page = 2

====
